---- MODULE Spec2Model ----
(***************************************************************************)
(* Model of the network core of the hexapod robot client:                  *)
(* NetworkManager (src/Code/Client/src/core/network_manager.py) together   *)
(* with the Connection and VideoStream objects it drives.                  *)
(*                                                                         *)
(* Threads of the model:                                                   *)
(*   - the caller, which runs connect() and disconnect() while holding the *)
(*     manager's RLock, one statement group per step;                      *)
(*   - one connect-loop thread per connect() call (_connect_loop);         *)
(*   - lock-free observers: send_command(), get_video_frame();             *)
(*   - the reader side of a started VideoStream (frame arrives, peer       *)
(*     closes) and the finalizer of unreferenced connections.              *)
(*                                                                         *)
(* Objects: a _connect_loop thread holds its two connections in the local  *)
(* variables control_conn and video_conn; a new attempt rebinds them. The  *)
(* model keeps, per thread, the objects those two locals are bound to. The *)
(* manager's four fields name the thread whose objects are installed       *)
(* (0 = None). The channel built over a connection (CommandProcessor over  *)
(* the control connection, VideoStream over the video connection) is the   *)
(* field chan of that connection.                                          *)
(***************************************************************************)
EXTENDS Integers, Sequences, FiniteSets, TLC

\* ---------------------------------------------------------------- bounds
\* Number of connect()/disconnect() calls the caller makes.
MaxCalls == 3
\* Number of _connect_loop threads connect() starts.
MaxThreads == 1
\* The same two bounds for the two-thread specification SpecRace.
MaxRaceCalls == 2
MaxRaceThreads == 2

\* ------------------------------------------------------ program constants
\* NetworkManager.__init__: reconnect_attempts default.
ReconnectAttempts == 3
\* NetworkManager.__init__: reconnect_delay default (seconds).
ReconnectDelay == 1

VARIABLES
    state,              \* NetworkManager._state (ConnectionState name)
    control_conn,       \* NetworkManager._control_conn (0 = None)
    video_conn,         \* NetworkManager._video_conn
    video_stream,       \* NetworkManager._video_stream
    command_processor,  \* NetworkManager._command_processor
    reconnect_thread,   \* NetworkManager._reconnect_thread (thread id, 0 = None)
    stop_event,         \* NetworkManager._stop_event
    lock,               \* holder of NetworkManager._lock: "free", "caller", "loop"
    threads,            \* every _connect_loop thread started so far, with its locals
    caller,             \* the thread calling connect()/disconnect()
    calls,              \* connect()/disconnect() calls made so far
    obs,                \* outcome of the send_command()/get_video_frame() just made
    notified,           \* the (old, new) pair of the last state-change notification
    main,               \* the NetworkManager of Client/Main.py and its caller
    framing,            \* MyWindow.receive_instruction: wire, records delivered
    stream,             \* one VideoStream and the bytes of its connection
    guarded,            \* one ThreadSafeValue with its callbacks
    control,            \* the send path: send_command down to the socket
    link,               \* one Connection, its peer and the threads using it
    vstream,            \* one VideoStream: start(), stop() and its reader threads
    notifier            \* Main.py _set_state: the state, the threads setting it

\* The variables of the core NetworkManager.
coreVars == <<state, control_conn, video_conn, video_stream, command_processor,
              reconnect_thread, stop_event, lock, threads, caller, calls,
              obs, notified>>

\* The variables of the components modelled on their own.
auxVars == <<main, framing, stream, guarded, control, link, vstream,
            notifier>>

vars == <<coreVars, auxVars>>

mgrFields == <<control_conn, video_conn, video_stream, command_processor>>

\* Outcomes of one pass through the try block of _connect_loop: the control
\* connect raises ConnectionError; the video connect does; one of them
\* raises an exception connect() does not convert (bad host type, port out
\* of range); or both connect.
AttemptOutcomes == {"control_refused", "video_refused", "control_unexpected",
                    "video_unexpected", "ok"}

ThreadIds == 1..Len(threads)

\* ------------------------------------------------------------- helpers

\* ThreadSafeValue.value setter: callbacks fire only if the value differs.
Notify(old, new) ==
    IF old # new
        THEN [old |-> old, new |-> new]
        ELSE notified

\* NetworkManager.state setter.
SetState(new) ==
    /\ state' = new
    /\ notified' = Notify(state, new)

\* No object bound yet.
NoConn == [state |-> "none", chan |-> "none", frameReady |-> FALSE]

\* A fresh Connection instance in the given state.
\* SocketConnection.connect: CONNECTED on success, DISCONNECTED on
\* socket.error/OSError; any other exception leaves it at CONNECTING.
NewConn(st) == [state |-> st, chan |-> "none", frameReady |-> FALSE]

\* IConnection.disconnect() followed by close().
Closed(conn) ==
    IF conn.state = "none" THEN conn ELSE [conn EXCEPT !.state = "DISCONNECTED"]

\* CommandProcessor.stop() on the channel built over conn.
StoppedProcessor(conn) ==
    IF conn.chan = "running" THEN [conn EXCEPT !.chan = "stopped"] ELSE conn

\* VideoStream.stop(): if running, clear _running and set frame_ready.
StoppedStream(conn) ==
    IF conn.chan = "running"
        THEN [conn EXCEPT !.chan = "stopped", !.frameReady = TRUE]
        ELSE conn

\* threading.Thread.is_alive()
IsAlive(t) == threads[t].pc # "done"

\* Positions where a connect-loop thread is parked: inside a blocking
\* connect(), inside time.sleep(), or waiting for the manager's lock.
Blocked(t) ==
    threads[t].pc \in {"attempt", "sleep", "install", "cleanup",
                       "giveup", "crash", "crash_cleanup"}

NoObs == [op |-> "none", result |-> "none", waited |-> FALSE, io |-> FALSE]

\* NetworkManager.__init__ of core/network_manager.py
CoreInit ==
    /\ state = "DISCONNECTED"
    /\ control_conn = 0
    /\ video_conn = 0
    /\ video_stream = 0
    /\ command_processor = 0
    /\ reconnect_thread = 0
    /\ stop_event = FALSE
    /\ lock = "free"
    /\ threads = <<>>
    /\ caller = [pc |-> "idle", op |-> "none", entry |-> "DISCONNECTED",
                 entryThread |-> 0, ret |-> "none"]
    /\ calls = 0
    /\ obs = NoObs
    /\ notified = [old |-> "none", new |-> "none"]

\* --------------------------------------------------- _connect_loop thread

\* Variant of Backoff with the exponent off by one.
BackoffMutantNoMinusOne(attempt) == ReconnectDelay * (2 ^ attempt)

\* time.sleep(self._reconnect_delay * (2 ** (attempt - 1)))
Backoff(attempt) == ReconnectDelay * (2 ^ (attempt - 1))

\* while not self._stop_event.is_set() and attempt < self._reconnect_attempts
LoopCheck(t) ==
    /\ threads[t].pc = "check"
    /\ threads' = [threads EXCEPT ![t].pc =
            IF ~stop_event /\ threads[t].attempt < ReconnectAttempts
                THEN "attempt" ELSE "done"]
    /\ obs' = NoObs
    /\ UNCHANGED <<state, mgrFields, reconnect_thread, stop_event, lock,
                   caller, calls, notified>>
    /\ UNCHANGED auxVars

\* The try block up to the lock: build and connect the control connection,
\* build and connect the video connection, build CommandProcessor and
\* VideoStream and start both. An exception leaves the locals bound so far
\* as they are: a refused control connect leaves video_conn bound to the
\* previous attempt's object.
LoopAttempt(t, o) ==
    /\ threads[t].pc = "attempt"
    /\ threads' = [threads EXCEPT ![t] =
         CASE o = "control_refused" ->
                [@ EXCEPT !.control = NewConn("DISCONNECTED"), !.pc = "cleanup"]
           [] o = "control_unexpected" ->
                [@ EXCEPT !.control = NewConn("CONNECTING"), !.pc = "crash"]
           [] o = "video_refused" ->
                [@ EXCEPT !.control = NewConn("CONNECTED"),
                          !.video = NewConn("DISCONNECTED"), !.pc = "cleanup"]
           [] o = "video_unexpected" ->
                [@ EXCEPT !.control = NewConn("CONNECTED"),
                          !.video = NewConn("CONNECTING"), !.pc = "crash"]
           [] OTHER ->
                [@ EXCEPT !.control = [NewConn("CONNECTED") EXCEPT !.chan = "running"],
                          !.video = [NewConn("CONNECTED") EXCEPT !.chan = "running"],
                          !.pc = "install"]]
    /\ obs' = NoObs
    /\ UNCHANGED <<state, mgrFields, reconnect_thread, stop_event, lock,
                   caller, calls, notified>>
    /\ UNCHANGED auxVars

\* with self._lock: the four field assignments of lines 148-151
LoopInstall(t) ==
    /\ threads[t].pc = "install"
    /\ lock = "free"
    /\ lock' = "loop"
    /\ control_conn' = t
    /\ video_conn' = t
    /\ command_processor' = t
    /\ video_stream' = t
    /\ threads' = [threads EXCEPT ![t].pc = "connected"]
    /\ obs' = NoObs
    /\ UNCHANGED <<state, reconnect_thread, stop_event, caller, calls, notified>>
    /\ UNCHANGED auxVars

\* self.state = ConnectionState.CONNECTED; the lock is released; return
LoopSetConnected(t) ==
    /\ threads[t].pc = "connected"
    /\ SetState("CONNECTED")
    /\ lock' = "free"
    /\ threads' = [threads EXCEPT ![t].pc = "done"]
    /\ obs' = NoObs
    /\ UNCHANGED <<mgrFields, reconnect_thread, stop_event, caller, calls>>
    /\ UNCHANGED auxVars

\* _cleanup_connections: stops and closes what the MANAGER holds (its four
\* fields), then clears the fields. The locals of the attempt that failed
\* are not touched.
Cleaned(u) ==
    [threads[u] EXCEPT
        !.control = LET s == IF u = command_processor
                                THEN StoppedProcessor(@) ELSE @
                    IN IF u = control_conn THEN Closed(s) ELSE s,
        !.video = LET s == IF u = video_stream
                              THEN StoppedStream(@) ELSE @
                  IN IF u = video_conn THEN Closed(s) ELSE s]

\* except ConnectionError: attempt += 1; self._cleanup_connections()
LoopCleanup(t) ==
    /\ threads[t].pc = "cleanup"
    /\ lock = "free"
    /\ threads' = [u \in DOMAIN threads |->
            IF u = t
               THEN [Cleaned(u) EXCEPT
                        !.attempt = @ + 1,
                        !.pc = IF threads[t].attempt + 1 >= ReconnectAttempts
                                  THEN "giveup" ELSE "sleep"]
               ELSE Cleaned(u)]
    /\ control_conn' = 0
    /\ video_conn' = 0
    /\ video_stream' = 0
    /\ command_processor' = 0
    /\ obs' = NoObs
    /\ UNCHANGED <<state, reconnect_thread, stop_event, lock, caller, calls,
                   notified>>
    /\ UNCHANGED auxVars

\* Variant of LoopGiveUp that leaves the state as it is.
LoopGiveUpMutantKeepsState(t) ==
    /\ threads[t].pc = "giveup"
    /\ lock = "free"
    /\ threads' = [threads EXCEPT ![t].pc = "done"]
    /\ obs' = NoObs
    /\ UNCHANGED <<state, notified, mgrFields, reconnect_thread, stop_event,
                   lock, caller, calls>>
    /\ UNCHANGED auxVars

\* if attempt >= self._reconnect_attempts: self.state = DISCONNECTED; break
LoopGiveUp(t) ==
    /\ threads[t].pc = "giveup"
    /\ lock = "free"
    /\ SetState("DISCONNECTED")
    /\ threads' = [threads EXCEPT ![t].pc = "done"]
    /\ obs' = NoObs
    /\ UNCHANGED <<mgrFields, reconnect_thread, stop_event, lock, caller, calls>>
    /\ UNCHANGED auxVars

\* time.sleep(...) between two attempts; then back to the while condition
LoopSleep(t) ==
    /\ threads[t].pc = "sleep"
    /\ threads' = [threads EXCEPT
            ![t].slept = Append(@, Backoff(threads[t].attempt)),
            ![t].pc = "check"]
    /\ obs' = NoObs
    /\ UNCHANGED <<state, mgrFields, reconnect_thread, stop_event, lock,
                   caller, calls, notified>>
    /\ UNCHANGED auxVars

\* except Exception: self.state = ConnectionState.DISCONNECTED
LoopCrash(t) ==
    /\ threads[t].pc = "crash"
    /\ lock = "free"
    /\ SetState("DISCONNECTED")
    /\ threads' = [threads EXCEPT ![t].pc = "crash_cleanup"]
    /\ obs' = NoObs
    /\ UNCHANGED <<mgrFields, reconnect_thread, stop_event, lock, caller, calls>>
    /\ UNCHANGED auxVars

\* except Exception: self._cleanup_connections(); break
LoopCrashCleanup(t) ==
    /\ threads[t].pc = "crash_cleanup"
    /\ lock = "free"
    /\ threads' = [u \in DOMAIN threads |->
            IF u = t THEN [Cleaned(u) EXCEPT !.pc = "done"] ELSE Cleaned(u)]
    /\ control_conn' = 0
    /\ video_conn' = 0
    /\ video_stream' = 0
    /\ command_processor' = 0
    /\ obs' = NoObs
    /\ UNCHANGED <<state, reconnect_thread, stop_event, lock, caller, calls,
                   notified>>
    /\ UNCHANGED auxVars

\* ------------------------------------------ caller: connect(), disconnect()

NewThread == [pc |-> "check", attempt |-> 0, control |-> NoConn,
              video |-> NoConn, slept |-> <<>>]

\* _disconnect() has returned: connect() goes on to start its thread,
\* disconnect() releases the lock and returns.
AfterDisconnect ==
    IF caller.op = "connect"
        THEN /\ caller' = [caller EXCEPT !.pc = "start"]
             /\ lock' = lock
        ELSE /\ caller' = [caller EXCEPT !.pc = "idle", !.ret = "returned"]
             /\ lock' = "free"

\* connect(): with self._lock: if state == CONNECTED: warn and return;
\* otherwise record host and ports and go on to _stop_reconnect_thread().
\* maxCalls and maxThreads bound the exploration.
ConnectCallB(maxCalls, maxThreads) ==
    /\ caller.pc = "idle"
    /\ lock = "free"
    /\ calls < maxCalls
    /\ state = "CONNECTED" \/ Len(threads) < maxThreads
    /\ calls' = calls + 1
    /\ IF state = "CONNECTED"
          THEN /\ caller' = [pc |-> "idle", op |-> "connect", entry |-> state,
                             entryThread |-> reconnect_thread, ret |-> "returned"]
               /\ lock' = lock
          ELSE /\ caller' = [pc |-> "stop", op |-> "connect", entry |-> state,
                             entryThread |-> reconnect_thread, ret |-> "pending"]
               /\ lock' = "caller"
    /\ obs' = NoObs
    /\ UNCHANGED <<state, mgrFields, reconnect_thread, stop_event,
                   threads, notified>>
    /\ UNCHANGED auxVars

ConnectCall == ConnectCallB(MaxCalls, MaxThreads)

\* disconnect(): with self._lock: _stop_reconnect_thread(); _disconnect()
DisconnectCallB(maxCalls) ==
    /\ caller.pc = "idle"
    /\ lock = "free"
    /\ calls < maxCalls
    /\ calls' = calls + 1
    /\ caller' = [pc |-> "stop", op |-> "disconnect", entry |-> state,
                  entryThread |-> reconnect_thread, ret |-> "pending"]
    /\ lock' = "caller"
    /\ obs' = NoObs
    /\ UNCHANGED <<state, mgrFields, reconnect_thread, stop_event,
                   threads, notified>>
    /\ UNCHANGED auxVars

DisconnectCall == DisconnectCallB(MaxCalls)

\* _stop_reconnect_thread(): if the thread is alive, set the stop event and
\* join it; in every case forget the thread.
StopReconnectThread ==
    /\ caller.pc = "stop"
    /\ IF reconnect_thread # 0 /\ IsAlive(reconnect_thread)
          THEN /\ stop_event' = TRUE
               /\ caller' = [caller EXCEPT !.pc = "join"]
               /\ UNCHANGED reconnect_thread
          ELSE /\ reconnect_thread' = 0
               /\ caller' = [caller EXCEPT !.pc = "disc"]
               /\ UNCHANGED stop_event
    /\ obs' = NoObs
    /\ UNCHANGED <<state, mgrFields, lock, threads, calls, notified>>
    /\ UNCHANGED auxVars

\* Variant of JoinReturns for a join() without timeout: it returns only
\* when the thread has ended.
JoinReturnsMutantNoTimeout ==
    /\ caller.pc = "join"
    /\ ~IsAlive(reconnect_thread)
    /\ reconnect_thread' = 0
    /\ caller' = [caller EXCEPT !.pc = "disc"]
    /\ obs' = NoObs
    /\ UNCHANGED <<state, mgrFields, stop_event, lock, threads, calls, notified>>
    /\ UNCHANGED auxVars

\* self._reconnect_thread.join(timeout=2.0) returns: the thread has ended,
\* or the timeout ran out while it was parked; self._reconnect_thread = None
JoinReturns ==
    /\ caller.pc = "join"
    /\ ~IsAlive(reconnect_thread) \/ Blocked(reconnect_thread)
    /\ reconnect_thread' = 0
    /\ caller' = [caller EXCEPT !.pc = "disc"]
    /\ obs' = NoObs
    /\ UNCHANGED <<state, mgrFields, stop_event, lock, threads, calls, notified>>
    /\ UNCHANGED auxVars

\* Variant of DisconnectBegin without the early return.
DisconnectBeginMutantNoEarlyReturn ==
    /\ caller.pc = "disc"
    /\ SetState("DISCONNECTING")
    /\ caller' = [caller EXCEPT !.pc = "stopvideo"]
    /\ obs' = NoObs
    /\ UNCHANGED <<mgrFields, reconnect_thread, stop_event, lock, threads, calls>>
    /\ UNCHANGED auxVars

\* _disconnect(): return if DISCONNECTED, else self.state = DISCONNECTING
DisconnectBegin ==
    /\ caller.pc = "disc"
    /\ IF state = "DISCONNECTED"
          THEN /\ AfterDisconnect
               /\ UNCHANGED <<state, notified>>
          ELSE /\ SetState("DISCONNECTING")
               /\ caller' = [caller EXCEPT !.pc = "stopvideo"]
               /\ UNCHANGED lock
    /\ obs' = NoObs
    /\ UNCHANGED <<mgrFields, reconnect_thread, stop_event, threads, calls>>
    /\ UNCHANGED auxVars

\* _disconnect(): if self._video_stream: stop it; self._video_stream = None
StopVideoStream ==
    /\ caller.pc = "stopvideo"
    /\ threads' = IF video_stream # 0
                     THEN [threads EXCEPT ![video_stream].video = StoppedStream(@)]
                     ELSE threads
    /\ video_stream' = 0
    /\ caller' = [caller EXCEPT !.pc = "stopcmd"]
    /\ obs' = NoObs
    /\ UNCHANGED <<state, control_conn, video_conn, command_processor,
                   reconnect_thread, stop_event, lock, calls, notified>>
    /\ UNCHANGED auxVars

\* _disconnect(): if self._command_processor: stop it; ... = None
StopCommandProcessor ==
    /\ caller.pc = "stopcmd"
    /\ threads' = IF command_processor # 0
                     THEN [threads EXCEPT ![command_processor].control = StoppedProcessor(@)]
                     ELSE threads
    /\ command_processor' = 0
    /\ caller' = [caller EXCEPT !.pc = "close"]
    /\ obs' = NoObs
    /\ UNCHANGED <<state, control_conn, video_conn, video_stream,
                   reconnect_thread, stop_event, lock, calls, notified>>
    /\ UNCHANGED auxVars

\* _disconnect(): disconnect() and close() both connections, clear the
\* fields, self.state = DISCONNECTED
CloseConnections ==
    /\ caller.pc = "close"
    /\ threads' = [u \in DOMAIN threads |->
            [threads[u] EXCEPT
                !.control = IF u = control_conn THEN Closed(@) ELSE @,
                !.video = IF u = video_conn THEN Closed(@) ELSE @]]
    /\ control_conn' = 0
    /\ video_conn' = 0
    /\ SetState("DISCONNECTED")
    /\ AfterDisconnect
    /\ obs' = NoObs
    /\ UNCHANGED <<video_stream, command_processor, reconnect_thread,
                   stop_event, calls>>
    /\ UNCHANGED auxVars

\* connect(): self.state = CONNECTING; self._stop_event.clear(); start the
\* _connect_loop thread; release the lock; return
StartConnect ==
    /\ caller.pc = "start"
    /\ SetState("CONNECTING")
    /\ stop_event' = FALSE
    /\ threads' = Append(threads, NewThread)
    /\ reconnect_thread' = Len(threads) + 1
    /\ lock' = "free"
    /\ caller' = [caller EXCEPT !.pc = "idle", !.ret = "returned"]
    /\ obs' = NoObs
    /\ UNCHANGED <<mgrFields, calls>>
    /\ UNCHANGED auxVars

\* ------------------------------- observers: send_command, get_video_frame

\* Variant of SendRefused without the is_connected test.
SendRefusedMutantNoStateCheck == command_processor = 0

\* send_command: if not self.is_connected or not self._command_processor: raise
SendRefused == state # "CONNECTED" \/ command_processor = 0

\* CommandProcessor.send_command writes the record through its connection;
\* IConnection.send raises ConnectionError unless the connection is CONNECTED.
ProcessorCanSend(conn) == conn.state = "CONNECTED"

SendCommand ==
    /\ IF SendRefused
          THEN /\ obs' = [op |-> "send_command", result |-> "ConnectionError",
                          waited |-> FALSE, io |-> FALSE]
               /\ UNCHANGED threads
          ELSE IF ProcessorCanSend(threads[command_processor].control)
                  THEN /\ UNCHANGED threads
                       /\ obs' = [op |-> "send_command", result |-> "sent",
                                  waited |-> FALSE, io |-> TRUE]
                  ELSE /\ obs' = [op |-> "send_command", result |-> "ConnectionError",
                                  waited |-> FALSE, io |-> FALSE]
                       /\ UNCHANGED threads
    /\ UNCHANGED <<state, mgrFields, reconnect_thread, stop_event, lock,
                   caller, calls, notified>>
    /\ UNCHANGED auxVars

\* Variant of FrameRefused without the is_connected test.
FrameRefusedMutantNoStateCheck == video_stream = 0

\* get_video_frame: if not self.is_connected or not self._video_stream: return None
FrameRefused == state # "CONNECTED" \/ video_stream = 0

\* VideoStream.get_frame: None if not running; otherwise wait on frame_ready
\* up to the timeout and return the current frame, or None on timeout.
GetFrame(conn) ==
    IF conn.chan # "running"
        THEN [op |-> "get_video_frame", result |-> "None", waited |-> FALSE, io |-> FALSE]
        ELSE IF conn.frameReady
                THEN [op |-> "get_video_frame", result |-> "frame", waited |-> TRUE, io |-> FALSE]
                ELSE [op |-> "get_video_frame", result |-> "None", waited |-> TRUE, io |-> FALSE]

GetVideoFrame ==
    /\ obs' = IF FrameRefused
                 THEN [op |-> "get_video_frame", result |-> "None",
                       waited |-> FALSE, io |-> FALSE]
                 ELSE GetFrame(threads[video_stream].video)
    /\ UNCHANGED <<state, mgrFields, reconnect_thread, stop_event, lock,
                   threads, caller, calls, notified>>
    /\ UNCHANGED auxVars

\* ----------------------------------------- VideoStream reader, finalizer

\* _stream_loop: a whole frame was read: current frame set, frame_ready.set()
VideoFrameArrives(t) ==
    /\ threads[t].video.chan = "running"
    /\ threads[t].video.state = "CONNECTED"
    /\ ~threads[t].video.frameReady
    /\ threads' = [threads EXCEPT ![t].video.frameReady = TRUE]
    /\ obs' = NoObs
    /\ UNCHANGED <<state, mgrFields, reconnect_thread, stop_event, lock,
                   caller, calls, notified>>
    /\ UNCHANGED auxVars

\* _stream_loop: receive() raises ConnectionError (peer closed: the
\* connection turns DISCONNECTED); the loop clears _running and ends.
\* The manager is not told.
VideoReaderConnectionError(t) ==
    /\ threads[t].video.chan = "running"
    /\ threads' = [threads EXCEPT ![t].video.state = "DISCONNECTED",
                                  ![t].video.chan = "stopped"]
    /\ obs' = NoObs
    /\ UNCHANGED <<state, mgrFields, reconnect_thread, stop_event, lock,
                   caller, calls, notified>>
    /\ UNCHANGED auxVars

\* The control connection thread t built last is still referred to: by the
\* live thread's local, by the manager, or by a running command processor.
ControlReferenced(t) ==
    \/ IsAlive(t)
    \/ t \in {control_conn, command_processor}
    \/ threads[t].control.chan = "running"

\* SocketConnection.__del__: close(), whenever the runtime collects it
Finalize(t) ==
    /\ ~ControlReferenced(t)
    /\ threads[t].control.state = "CONNECTED"
    /\ threads' = [threads EXCEPT ![t].control = Closed(@)]
    /\ obs' = NoObs
    /\ UNCHANGED <<state, mgrFields, reconnect_thread, stop_event, lock,
                   caller, calls, notified>>
    /\ UNCHANGED auxVars

\* ------------------------------------------------------- specification

\* The components modelled on their own, before anything has used them.
MainInit ==
    [state |-> "DISCONNECTED", instruction_socket |-> "none",
     video_socket |-> "none", stop_event |-> FALSE,
     pc |-> "idle", op |-> "none", attempt |-> 0, current_delay |-> 0,
     exc |-> "none", ret |-> "none", calls |-> 0,
     notified |-> [old |-> "none", new |-> "none"]]

FramingIdle == [pc |-> "idle"]

StreamIdle == [pc |-> "idle"]

GuardedIdle == [pc |-> "idle"]

ControlIdle == [pc |-> "idle"]

LinkIdle == [pc |-> "idle"]

VstreamIdle == [pc |-> "idle"]

NotifierIdle == [pc |-> "idle"]

Init ==
    /\ CoreInit
    /\ main = MainInit
    /\ vstream = VstreamIdle
    /\ notifier = NotifierIdle
    /\ framing = FramingIdle
    /\ stream = StreamIdle
    /\ guarded = GuardedIdle
    /\ control = ControlIdle
    /\ link = LinkIdle


LoopStep(t) ==
    \/ LoopCheck(t)
    \/ \E o \in AttemptOutcomes : LoopAttempt(t, o)
    \/ LoopInstall(t)
    \/ LoopSetConnected(t)
    \/ LoopCleanup(t)
    \/ LoopGiveUp(t)
    \/ LoopSleep(t)
    \/ LoopCrash(t)
    \/ LoopCrashCleanup(t)

CallerStep ==
    \/ StopReconnectThread
    \/ JoinReturns
    \/ DisconnectBegin
    \/ StopVideoStream
    \/ StopCommandProcessor
    \/ CloseConnections
    \/ StartConnect

\* Every step except the entry into connect() and disconnect().
Run ==
    \/ CallerStep
    \/ \E t \in ThreadIds : LoopStep(t)
    \/ SendCommand
    \/ GetVideoFrame
    \/ \E t \in ThreadIds : VideoFrameArrives(t)
    \/ \E t \in ThreadIds : VideoReaderConnectionError(t)
    \/ \E t \in ThreadIds : Finalize(t)

Next ==
    \/ ConnectCall
    \/ DisconnectCall
    \/ Run

Spec == Init /\ [][Next]_vars

\* Two calls, two _connect_loop threads: a second connect() issued while the
\* first thread is still parked in its attempt.
RaceConnectCall == ConnectCallB(MaxRaceCalls, MaxRaceThreads)

RaceDisconnectCall == DisconnectCallB(MaxRaceCalls)

NextRace ==
    \/ RaceConnectCall
    \/ RaceDisconnectCall
    \/ Run

SpecRace == Init /\ [][NextRace]_vars


\* ------------------------------------- the NetworkManager of Client/Main.py

\* Number of connect()/disconnect() calls made on the Main.py manager.
MaxMainCalls == 3

\* @retry(max_attempts=3, delay=1.0, backoff=2.0, ...) on connect
MainMaxAttempts == 3
MainRetryDelay == 1
MainBackoff == 2

\* @retry(..., exceptions=(ConnectionError, socket.error, TimeoutError))
RetryExceptions == {"ConnectionError", "socket.error", "TimeoutError"}

\* The two socket connects of one connect() attempt: the command port
\* refuses, the video port refuses, or both connect.
MainOutcomes == {"command_refused", "video_refused", "ok"}

mainOthers == <<coreVars, framing, stream, guarded, control, link, vstream,
        notifier>>

\* _set_state: assign and notify only if the state differs
MainSetState(m, new) ==
    IF m.state # new
        THEN [m EXCEPT !.state = new,
                       !.notified = [old |-> m.state, new |-> new]]
        ELSE m

\* The call of the decorated connect(): the retry wrapper starts attempt 1.
MainConnectCall ==
    /\ main.pc = "idle"
    /\ main.calls < MaxMainCalls
    /\ main' = [main EXCEPT !.pc = "attempt", !.op = "connect",
                            !.attempt = 1, !.current_delay = MainRetryDelay,
                            !.exc = "none", !.ret = "pending",
                            !.calls = @ + 1]
    /\ UNCHANGED mainOthers

\* Variant of MainConnectBegin that does not set CONNECTING.
MainConnectBeginMutantNoConnecting ==
    /\ main.pc = "attempt"
    /\ main' = IF main.state = "CONNECTED"
                  THEN [main EXCEPT !.exc = "InvalidStateError", !.pc = "raised"]
                  ELSE [main EXCEPT !.pc = "sockets"]
    /\ UNCHANGED mainOthers

\* connect(): raise InvalidStateError if CONNECTED, else _set_state(CONNECTING)
MainConnectBegin ==
    /\ main.pc = "attempt"
    /\ main' = IF main.state = "CONNECTED"
                  THEN [main EXCEPT !.exc = "InvalidStateError", !.pc = "raised"]
                  ELSE [MainSetState(main, "CONNECTING") EXCEPT !.pc = "sockets"]
    /\ UNCHANGED mainOthers

\* connect(): create and connect the command socket, then the video socket.
\* A refused command connect leaves the new socket in the field; a refused
\* video connect closes the command socket and clears its field.
MainConnectSockets(o) ==
    /\ main.pc = "sockets"
    /\ main' =
         CASE o = "command_refused" ->
                [main EXCEPT !.instruction_socket = "created",
                             !.exc = "ConnectionError", !.pc = "handle"]
           [] o = "video_refused" ->
                [main EXCEPT !.instruction_socket = "none",
                             !.video_socket = "created",
                             !.exc = "ConnectionError", !.pc = "handle"]
           [] OTHER ->
                [main EXCEPT !.instruction_socket = "connected",
                             !.video_socket = "connected",
                             !.pc = "start_threads"]
    /\ UNCHANGED mainOthers

\* connect(): self.start_threads(), which raises InvalidStateError unless
\* the state is CONNECTED; then _set_state(CONNECTED) and return True.
MainStartThreads ==
    /\ main.pc = "start_threads"
    /\ main' = IF main.state # "CONNECTED"
                  THEN [main EXCEPT !.pc = "inner_disconnect"]
                  ELSE [main EXCEPT !.pc = "idle", !.ret = "True"]
    /\ UNCHANGED mainOthers

\* disconnect(): return if DISCONNECTED; else _set_state(DISCONNECTED),
\* set the stop event and call self._stop_threads(), a method the class
\* does not have (AttributeError): nothing after that line runs.
MainDisconnected(m) ==
    IF m.state = "DISCONNECTED"
        THEN m
        ELSE [MainSetState(m, "DISCONNECTED") EXCEPT !.stop_event = TRUE]

\* connect(): except Exception: self.disconnect(); raise ConnectionError
MainInnerDisconnect ==
    /\ main.pc = "inner_disconnect"
    /\ main' = [MainDisconnected(main) EXCEPT
                   !.exc = IF main.state = "DISCONNECTED"
                              THEN "ConnectionError" ELSE "AttributeError",
                   !.pc = "handle"]
    /\ UNCHANGED mainOthers

\* connect(): except Exception: self._handle_connection_error(...); raise
\* _handle_connection_error: _set_state(ERROR); stop_threads() (no thread
\* is running: it returns at once).
MainHandleError ==
    /\ main.pc = "handle"
    /\ main' = [MainSetState(main, "ERROR") EXCEPT !.pc = "raised"]
    /\ UNCHANGED mainOthers

\* The retry wrapper: an exception of the listed classes is retried after
\* time.sleep(current_delay), current_delay *= backoff; after the last
\* attempt it raises RobotError; any other exception goes to the caller.
MainRetry ==
    /\ main.pc = "raised"
    /\ main' =
         IF main.exc \in RetryExceptions
            THEN IF main.attempt = MainMaxAttempts
                    THEN [main EXCEPT !.pc = "idle", !.ret = "RobotError"]
                    ELSE [main EXCEPT !.pc = "attempt", !.attempt = @ + 1,
                                      !.current_delay = @ * MainBackoff]
            ELSE [main EXCEPT !.pc = "idle", !.ret = main.exc]
    /\ UNCHANGED mainOthers

\* A call of disconnect() by the caller.
MainDisconnectCall ==
    /\ main.pc = "idle"
    /\ main.calls < MaxMainCalls
    /\ main' = [MainDisconnected(main) EXCEPT
                   !.op = "disconnect", !.calls = @ + 1, !.exc = "none",
                   !.ret = IF main.state = "DISCONNECTED"
                              THEN "returned" ELSE "AttributeError"]
    /\ UNCHANGED mainOthers

MainCommandRefused == MainConnectSockets("command_refused")

MainVideoRefused == MainConnectSockets("video_refused")

MainBothConnect == MainConnectSockets("ok")

NextMain ==
    \/ MainConnectCall
    \/ MainConnectBegin
    \/ MainCommandRefused
    \/ MainVideoRefused
    \/ MainBothConnect
    \/ MainStartThreads
    \/ MainInnerDisconnect
    \/ MainHandleError
    \/ MainRetry
    \/ MainDisconnectCall

SpecMain == Init /\ [][NextMain]_vars

\* ------------------------- command records: MyWindow.receive_instruction

\* Length of the byte stream the server writes on the control connection.
MaxWireLen == 4

\* Client.receive_data: self._command_socket.recv(1024)
RecvSize == 1024

\* The characters of the streams explored: a letter, the field separator
\* and the record terminator.
Chars == {"a", "#", "\n"}

framingOthers == <<coreVars, main, stream, guarded, control, link, vstream,
        notifier>>

RECURSIVE Wires(_)
\* Every stream of exactly n characters.
Wires(n) ==
    IF n = 0 THEN {<<>>}
    ELSE {Append(w, c) : w \in Wires(n - 1), c \in Chars}

\* Index of the first sep in s, 0 if there is none.
FirstIndex(s, sep) ==
    IF \E i \in 1..Len(s) : s[i] = sep
        THEN CHOOSE i \in 1..Len(s) :
                /\ s[i] = sep
                /\ \A j \in 1..(i - 1) : s[j] # sep
        ELSE 0

RECURSIVE Split(_, _)
\* str.split(sep): the pieces between the separators, empty ones included
Split(s, sep) ==
    LET i == FirstIndex(s, sep)
    IN IF i = 0 THEN <<s>>
       ELSE <<SubSeq(s, 1, i - 1)>> \o Split(SubSeq(s, i + 1, Len(s)), sep)

\* receive_instruction, one pass of the while loop over a chunk:
\* cmdArray = alldata.split('\n'); the statement meant to drop an
\* unterminated last piece is the comparison cmdArray==cmdArray[:-1],
\* which changes nothing; every piece is then split on '#' and handled.
ChunkRecords(alldata) ==
    LET cmdArray == Split(alldata, "\n")
    IN [k \in 1..Len(cmdArray) |-> Split(cmdArray[k], "#")]

\* The streams receive_instruction is run on.
FramingInits ==
    {[pc |-> "receiving", wire |-> w, received |-> <<>>, delivered |-> <<>>] :
        w \in UNION {Wires(n) : n \in 1..MaxWireLen}}

\* One receive_data() that returns n characters, and the loop body on them.
FramingReceive ==
    /\ framing.pc = "receiving"
    /\ \E n \in 1..Len(framing.wire) :
          /\ n <= RecvSize
          /\ LET alldata == SubSeq(framing.wire, 1, n)
             IN framing' = [framing EXCEPT
                    !.wire = SubSeq(@, n + 1, Len(@)),
                    !.received = @ \o alldata,
                    !.delivered = @ \o ChunkRecords(alldata)]
    /\ UNCHANGED framingOthers

\* receive_data() returns '' (the peer has closed): the loop ends.
FramingPeerClosed ==
    /\ framing.pc = "receiving"
    /\ framing.wire = <<>>
    /\ framing' = [framing EXCEPT !.pc = "done"]
    /\ UNCHANGED framingOthers

InitFraming ==
    /\ CoreInit
    /\ main = MainInit
    /\ vstream = VstreamIdle
    /\ notifier = NotifierIdle
    /\ framing \in FramingInits
    /\ stream = StreamIdle
    /\ guarded = GuardedIdle
    /\ control = ControlIdle
    /\ link = LinkIdle

NextFraming ==
    \/ FramingReceive
    \/ FramingPeerClosed

SpecFraming == InitFraming /\ [][NextFraming]_vars

\* ----------------------------------- VideoStream over its byte stream

\* Number of frames (valid or with a bad header) the server writes.
MaxFrames == 2
\* Number of get_frame() calls made on the stream.
MaxGets == 2

\* _stream_loop: frame_length > 10 * 1024 * 1024 is rejected
MaxFrameLength == 10 * 1024 * 1024

\* _stream_loop: self._conn.receive(4, ...) for the header
HeaderSize == 4

\* _stream_loop: self._conn.receive(min(4096, remaining), ...)
PayloadChunk == 4096

\* current_frame before any frame: None
NoFrame == <<>>

streamOthers == <<coreVars, main, framing, guarded, control, link, vstream,
        notifier>>

Min(a, b) == IF a < b THEN a ELSE b

\* struct.pack('<L', n): four bytes, least significant first
Header(n) ==
    <<n % 256, (n \div 256) % 256, (n \div 65536) % 256, (n \div 16777216) % 256>>

\* struct.unpack('<L', header)[0]
Decode(h) == h[1] + 256 * h[2] + 65536 * h[3] + 16777216 * h[4]

\* The frame payloads the server may send; the last one contains bytes
\* that read as a header themselves.
Payloads == {<<1>>, <<2>>, <<1, 2>>, <<1, 0, 0, 0, 2>>}

\* What the server may write for one frame: a header and its payload, a
\* header of length 0, or a header of a length above the maximum.
WireItems ==
    {[bytes |-> Header(Len(pl)) \o pl, frames |-> <<pl>>, ok |-> TRUE] :
        pl \in Payloads}
    \cup {[bytes |-> Header(0), frames |-> <<>>, ok |-> FALSE],
          [bytes |-> Header(MaxFrameLength + 6291456), frames |-> <<>>,
           ok |-> FALSE]}

RECURSIVE WiresOf(_)
\* Every stream of exactly n items, with the payloads it carries and
\* whether every header in it is a valid one.
WiresOf(n) ==
    IF n = 0 THEN {[bytes |-> <<>>, frames |-> <<>>, ok |-> TRUE]}
    ELSE {[bytes |-> w.bytes \o i.bytes, frames |-> w.frames \o i.frames,
           ok |-> w.ok /\ i.ok] :
             w \in WiresOf(n - 1), i \in WireItems}

\* VideoStream after start(): _running set, frame_ready cleared, the
\* _stream_loop thread at the top of its loop.
StreamInits ==
    {[wire |-> w.bytes, sent |-> w.frames, wellFormed |-> w.ok,
      running |-> TRUE, pc |-> "header", header |-> <<>>,
      frame_length |-> 0, frame_data |-> <<>>,
      current_frame |-> NoFrame, frame_ready |-> FALSE,
      lastCompleted |-> NoFrame, nCompleted |-> 0, bad |-> FALSE, readAfterBad |-> FALSE,
      getter |-> "idle", gets |-> 0,
      got |-> [value |-> NoFrame, elapsed |-> FALSE, alive |-> FALSE]] :
        w \in UNION {WiresOf(n) : n \in 1..MaxFrames}}

\* Variant of StoreFrame that keeps the first frame.
StoreFrameMutantKeepFirst(cur, frame) == IF cur = NoFrame THEN frame ELSE cur

\* self._current_frame.value = frame_bytes (ThreadSafeValue setter)
StoreFrame(cur, frame) == IF cur # frame THEN frame ELSE cur

\* _stream_loop: the while conditions see _running cleared; the loop ends.
StreamLoopExit ==
    /\ stream.pc \in {"header", "payload"}
    /\ ~stream.running
    /\ stream' = [stream EXCEPT !.pc = "ended"]
    /\ UNCHANGED streamOthers

\* _stream_loop: header = receive(4) returns k bytes, which replace what
\* the local held. Fewer than 4: warn and continue. Length 0 or above the maximum: warn and continue.
\* Otherwise go on to read the payload.
StreamReadHeader ==
    /\ stream.pc = "header"
    /\ stream.running
    /\ \E k \in 1..Min(HeaderSize, Len(stream.wire)) :
          LET header == SubSeq(stream.wire, 1, k)
              rest == SubSeq(stream.wire, k + 1, Len(stream.wire))
              valid == k = 4 /\ Decode(header) # 0
                             /\ Decode(header) <= MaxFrameLength
          IN stream' = [stream EXCEPT
                 !.wire = rest,
                 !.header = header,
                 !.readAfterBad = @ \/ stream.bad,
                 !.bad = @ \/ (k = 4 /\ ~valid),
                 !.pc = IF valid THEN "payload" ELSE "header",
                 !.frame_length = IF valid THEN Decode(header) ELSE @,
                 !.frame_data = <<>>]
    /\ UNCHANGED streamOthers

\* _stream_loop: chunk = receive(min(4096, remaining)); when the payload is
\* complete: store the frame and set frame_ready.
StreamReadPayload ==
    /\ stream.pc = "payload"
    /\ stream.running
    /\ \E k \in 1..Min(Min(PayloadChunk, stream.frame_length - Len(stream.frame_data)),
                       Len(stream.wire)) :
          LET data == stream.frame_data \o SubSeq(stream.wire, 1, k)
              rest == SubSeq(stream.wire, k + 1, Len(stream.wire))
          IN stream' =
               IF Len(data) = stream.frame_length
                  THEN [stream EXCEPT
                          !.wire = rest,
                          !.readAfterBad = @ \/ stream.bad,
                          !.frame_data = <<>>,
                          !.current_frame = StoreFrame(@, data),
                          !.frame_ready = TRUE,
                          !.lastCompleted = data,
                          !.nCompleted = @ + 1,
                          !.pc = "header"]
                  ELSE [stream EXCEPT
                          !.wire = rest,
                          !.readAfterBad = @ \/ stream.bad,
                          !.frame_data = data]
    /\ UNCHANGED streamOthers

\* _stream_loop: receive raises TimeoutError while the payload is read:
\* except Exception logs, sleeps and the outer loop starts over at the
\* header read; the part of the payload read so far is dropped.
StreamReceiveTimeout ==
    /\ stream.pc = "payload"
    /\ stream.running
    /\ stream' = [stream EXCEPT !.pc = "header", !.frame_data = <<>>]
    /\ UNCHANGED streamOthers

\* _stream_loop: receive raises ConnectionError (the peer has closed):
\* _running is cleared and the loop ends.
StreamConnectionError ==
    /\ stream.pc \in {"header", "payload"}
    /\ stream.running
    /\ stream.wire = <<>>
    /\ stream' = [stream EXCEPT !.running = FALSE, !.pc = "ended"]
    /\ UNCHANGED streamOthers

\* stop(): if running, clear _running and set frame_ready
StreamStop ==
    /\ stream.pc # "idle"
    /\ stream.running
    /\ stream' = [stream EXCEPT !.running = FALSE, !.frame_ready = TRUE]
    /\ UNCHANGED streamOthers

\* Variant of StreamWoken that hands back no frame.
StreamWokenMutantNoFrame(st) ==
    [value |-> NoFrame, elapsed |-> FALSE, alive |-> st.running]

\* get_frame: frame_ready.wait() returned True: return the current frame
StreamWoken(st) ==
    [value |-> st.current_frame, elapsed |-> FALSE, alive |-> st.running]

\* get_frame(timeout): None at once if not running; the current frame at
\* once if frame_ready is set; otherwise wait on frame_ready.
StreamGetFrame ==
    /\ stream.pc # "idle"
    /\ stream.getter = "idle"
    /\ stream.gets < MaxGets
    /\ stream' =
         IF ~stream.running
            THEN [stream EXCEPT !.gets = @ + 1,
                    !.got = [value |-> NoFrame, elapsed |-> FALSE, alive |-> FALSE]]
            ELSE IF stream.frame_ready
                    THEN [stream EXCEPT !.gets = @ + 1, !.got = StreamWoken(stream)]
                    ELSE [stream EXCEPT !.getter = "waiting"]
    /\ UNCHANGED streamOthers

\* get_frame: the wait ends because frame_ready has been set
StreamGetWakes ==
    /\ stream.pc # "idle"
    /\ stream.getter = "waiting"
    /\ stream.frame_ready
    /\ stream' = [stream EXCEPT !.getter = "idle", !.gets = @ + 1,
                                !.got = StreamWoken(stream)]
    /\ UNCHANGED streamOthers

\* get_frame: the timeout elapses with frame_ready not set: return None
StreamGetTimesOut ==
    /\ stream.pc # "idle"
    /\ stream.getter = "waiting"
    /\ ~stream.frame_ready
    /\ stream' = [stream EXCEPT !.getter = "idle", !.gets = @ + 1,
                    !.got = [value |-> NoFrame, elapsed |-> TRUE,
                             alive |-> stream.running]]
    /\ UNCHANGED streamOthers

InitStream ==
    /\ CoreInit
    /\ main = MainInit
    /\ vstream = VstreamIdle
    /\ notifier = NotifierIdle
    /\ framing = FramingIdle
    /\ stream \in StreamInits
    /\ guarded = GuardedIdle
    /\ control = ControlIdle
    /\ link = LinkIdle

NextStream ==
    \/ StreamLoopExit
    \/ StreamReadHeader
    \/ StreamReadPayload
    \/ StreamReceiveTimeout
    \/ StreamConnectionError
    \/ StreamStop
    \/ StreamGetFrame
    \/ StreamGetWakes
    \/ StreamGetTimesOut

SpecStream == InitStream /\ [][NextStream]_vars

\* ------------------- the send path: send_command, Connection.send, Client

MaxSendCalls == 2

MaxTextLen == 2

\* The characters a command is made of: a letter, the record terminator, and
\* one character outside ASCII (U+00E9), which UTF-8 encodes as two bytes.
TextChars == {"A", "\n", "U+00E9"}

controlOthers == <<coreVars, main, framing, stream, guarded, link, vstream,
        notifier>>

RECURSIVE Texts(_)
\* Every text of at most n characters.
Texts(n) ==
    IF n = 0 THEN {<<>>}
    ELSE Texts(n - 1) \cup
         {Append(t, c) : t \in {u \in Texts(n - 1) : Len(u) = n - 1},
                         c \in TextChars}

\* The UTF-8 bytes of one character.
Utf8(c) ==
    CASE c = "A" -> <<65>>
      [] c = "\n" -> <<10>>
      [] c = "U+00E9" -> <<195, 169>>

RECURSIVE Encode(_)
\* str.encode('utf-8'): the bytes of the characters, in order.
Encode(text) ==
    IF text = <<>> THEN <<>>
    ELSE Utf8(Head(text)) \o Encode(Tail(text))

\* socket.sendall(data): either every byte is written, or the call raises
\* after some part of the data has gone out.
SendAllOutcomes(data) ==
    {[written |-> data, result |-> "ok"]} \cup
    {[written |-> SubSeq(data, 1, k), result |-> r] :
        k \in 0..Len(data), r \in {"socket.timeout", "socket.error"}}

\* Variant of ConnectionSend that ends every write with a newline byte.
ConnectionSendMutantAppendsNewline(c, data, o) ==
    IF c.conn_state # "CONNECTED"
    THEN [c EXCEPT !.last.ret = "ConnectionError"]
    ELSE CASE o.result = "ok" ->
                [c EXCEPT !.wire = @ \o o.written \o <<10>>,
                          !.sends = @ + 1,
                          !.last.ret = "returned"]
           [] o.result = "socket.timeout" ->
                [c EXCEPT !.wire = @ \o o.written, !.sends = @ + 1,
                          !.last.ret = "TimeoutError"]
           [] o.result = "socket.error" ->
                [c EXCEPT !.wire = @ \o o.written, !.sends = @ + 1,
                          !.conn_state = "DISCONNECTED",
                          !.last.ret = "ConnectionError"]

\* SocketConnection.send(data): refuses unless the connection is CONNECTED,
\* hands the data to one sendall, and on a socket error marks the connection
\* DISCONNECTED.
ConnectionSend(c, data, o) ==
    IF c.conn_state # "CONNECTED"
    THEN [c EXCEPT !.last.ret = "ConnectionError"]
    ELSE CASE o.result = "ok" ->
                [c EXCEPT !.wire = @ \o o.written, !.sends = @ + 1,
                          !.last.ret = "returned"]
           [] o.result = "socket.timeout" ->
                [c EXCEPT !.wire = @ \o o.written, !.sends = @ + 1,
                          !.last.ret = "TimeoutError"]
           [] o.result = "socket.error" ->
                [c EXCEPT !.wire = @ \o o.written, !.sends = @ + 1,
                          !.conn_state = "DISCONNECTED",
                          !.last.ret = "ConnectionError"]

\* CommandProcessor.send_command(command, timeout): the record as the caller
\* wrote it, encoded, in one Connection.send.
CommandProcessorSendCommand(c, command, o) ==
    ConnectionSend(c, Encode(command), o)

\* The states a manager with a control connection can be called in.
ControlInits ==
    [pc : {"ready"},
     state : {"DISCONNECTED", "CONNECTED"},
     command_processor : BOOLEAN,
     conn_state : {"CONNECTED"},
     tcp_flag : BOOLEAN,
     wire : {<<>>},
     sends : {0},
     calls : {0},
     last : {[op |-> "none", text |-> <<>>, ret |-> "none"]}]

\* NetworkManager.send_command(command).
ControlSendCommand ==
    /\ control.pc = "ready"
    /\ control.calls < MaxSendCalls
    /\ \E command \in Texts(MaxTextLen) :
         LET c == [control EXCEPT !.calls = @ + 1,
                                  !.last = [op |-> "send_command",
                                            text |-> command,
                                            ret |-> "none"]]
         IN  IF c.state # "CONNECTED" \/ ~c.command_processor
             THEN control' = [c EXCEPT !.last.ret = "ConnectionError"]
             ELSE \E o \in SendAllOutcomes(Encode(command)) :
                     control' = CommandProcessorSendCommand(c, command, o)
    /\ UNCHANGED controlOthers

\* Client.send_data(data).
ClientSendData ==
    /\ control.pc = "ready"
    /\ control.calls < MaxSendCalls
    /\ \E data \in Texts(MaxTextLen) :
         LET c == [control EXCEPT !.calls = @ + 1,
                                  !.last = [op |-> "send_data",
                                            text |-> data,
                                            ret |-> "returned"]]
         IN  IF ~c.tcp_flag
             THEN control' = c
             ELSE \E o \in SendAllOutcomes(Encode(data)) :
                     control' = [c EXCEPT !.wire = @ \o o.written,
                                          !.sends = @ + 1,
                                          !.tcp_flag = (o.result = "ok")]
    /\ UNCHANGED controlOthers

InitControl ==
    /\ CoreInit
    /\ main = MainInit
    /\ vstream = VstreamIdle
    /\ notifier = NotifierIdle
    /\ framing = FramingIdle
    /\ stream = StreamIdle
    /\ guarded = GuardedIdle
    /\ control \in ControlInits
    /\ link = LinkIdle

NextControl ==
    \/ ControlSendCommand
    \/ ClientSendData

SpecControl == InitControl /\ [][NextControl]_vars

\* ------------------------------------------------------ ThreadSafeValue

MaxSets == 3

MaxCallbacks == 2

\* The values the guarded value takes (the manager's use of it).
Values == {"DISCONNECTED", "CONNECTING", "CONNECTED"}

CallbackIds == 1..MaxCallbacks

guardedOthers == <<coreVars, main, framing, stream, control, link, vstream,
        notifier>>

\* list.remove(x): the list without the first occurrence of x.
ListRemove(list, x) ==
    LET i == CHOOSE k \in 1..Len(list) : list[k] = x /\
                 \A j \in 1..(k - 1) : list[j] # x
    IN  SubSeq(list, 1, i - 1) \o SubSeq(list, i + 1, Len(list))

\* x in list
InList(list, x) == \E k \in 1..Len(list) : list[k] = x

\* Variant of WithCallback that appends without looking for the callback.
WithCallbackMutantAlwaysAppends(list, c) == Append(list, c)

\* ThreadSafeValue.add_callback under the lock.
WithCallback(list, c) == IF InList(list, c) THEN list ELSE Append(list, c)

\* ThreadSafeValue.remove_callback under the lock.
WithoutCallback(list, c) == IF InList(list, c) THEN ListRemove(list, c) ELSE list

\* No operation made yet on the value's callback list.
NoOp == [op |-> "none", cb |-> 0, present |-> FALSE, ret |-> "none"]

\* ThreadSafeValue(initial_value): no callbacks, lock free.  lock counts the
\* holds of the re-entrant lock by the thread inside the setter.  prior,
\* lastSet, snapshot, log, raised and ret record the last assignment: the
\* value held before it, the value assigned, the callbacks registered when it
\* was made, the calls made for it, whether one of them raised, and how the
\* assignment ended.  last records the last add_callback/remove_callback.
GuardedInits ==
    [pc : {"free"},
     lock : {0},
     value : Values,
     callbacks : {<<>>},
     pending : {<<>>},
     prior : {"none"},
     lastSet : {"none"},
     snapshot : {<<>>},
     log : {<<>>},
     raised : {FALSE},
     ret : {"none"},
     last : {NoOp},
     got : {"unread"},
     sets : {0}]

\* Variant of ValueSet that notifies without comparing the values.
ValueSetMutantAlwaysNotifies ==
    /\ guarded.pc = "free"
    /\ guarded.sets < MaxSets
    /\ \E new_value \in Values :
         LET g == [guarded EXCEPT !.sets = @ + 1,
                                  !.prior = guarded.value,
                                  !.lastSet = new_value,
                                  !.snapshot = guarded.callbacks,
                                  !.log = <<>>,
                                  !.raised = FALSE,
                                  !.ret = "returned",
                                  !.got = "unread"]
         IN  IF guarded.callbacks = <<>>
             THEN guarded' = [g EXCEPT !.value = new_value]
             ELSE guarded' = [g EXCEPT !.value = new_value,
                                       !.pending = guarded.callbacks,
                                       !.pc = "notifying",
                                       !.lock = 2,
                                       !.ret = "running"]
    /\ UNCHANGED guardedOthers

\* The value setter: with the lock held, a value that differs from the one
\* held replaces it and _notify_observers, which takes the lock once more,
\* starts over a copy of the callback list.  Both holds are released when the
\* loop is over.
ValueSet ==
    /\ guarded.pc = "free"
    /\ guarded.sets < MaxSets
    /\ \E new_value \in Values :
         LET g == [guarded EXCEPT !.sets = @ + 1,
                                  !.prior = guarded.value,
                                  !.lastSet = new_value,
                                  !.snapshot = guarded.callbacks,
                                  !.log = <<>>,
                                  !.raised = FALSE,
                                  !.ret = "returned",
                                  !.got = "unread"]
         IN  IF guarded.value # new_value
             THEN IF guarded.callbacks = <<>>
                  THEN guarded' = [g EXCEPT !.value = new_value]
                  ELSE guarded' = [g EXCEPT !.value = new_value,
                                            !.pending = guarded.callbacks,
                                            !.pc = "notifying",
                                            !.lock = 2,
                                            !.ret = "running"]
             ELSE guarded' = g
    /\ UNCHANGED guardedOthers

\* The callback list after what the running callback did to it.
CallbackEffects(list) ==
    {list} \cup {WithCallback(list, c) : c \in CallbackIds}
           \cup {WithoutCallback(list, c) : c \in CallbackIds}

\* Variant of NotifyCall without the try/except around the callback: an
\* exception ends the loop and leaves the setter.
NotifyCallMutantRaisePropagates ==
    /\ guarded.pc = "notifying"
    /\ guarded.pending # <<>>
    /\ LET callback == Head(guarded.pending)
           over == Tail(guarded.pending) = <<>>
           g == [guarded EXCEPT
                    !.log = Append(@, [cb |-> callback,
                                       old |-> guarded.prior,
                                       new |-> guarded.value])]
       IN  \E raises \in BOOLEAN, list \in CallbackEffects(guarded.callbacks) :
              guarded' =
                 IF raises
                 THEN [g EXCEPT !.callbacks = list,
                                !.raised = TRUE,
                                !.pending = <<>>,
                                !.pc = "free",
                                !.lock = 0,
                                !.ret = "Exception"]
                 ELSE [g EXCEPT !.callbacks = list,
                                !.pending = Tail(@),
                                !.pc = IF over THEN "free" ELSE "notifying",
                                !.lock = IF over THEN 0 ELSE @,
                                !.ret = IF over THEN "returned" ELSE @]
    /\ UNCHANGED guardedOthers

\* _notify_observers calls the next callback of its copy.  The callback
\* returns or raises an Exception (caught and logged), and may, on the same
\* thread and so through the re-entrant lock, add or remove a callback.  After
\* the last callback the loop ends, both holds of the lock are released and
\* the setter returns.
NotifyCall ==
    /\ guarded.pc = "notifying"
    /\ guarded.pending # <<>>
    /\ LET callback == Head(guarded.pending)
           over == Tail(guarded.pending) = <<>>
           g == [guarded EXCEPT
                    !.log = Append(@, [cb |-> callback,
                                       old |-> guarded.prior,
                                       new |-> guarded.value])]
       IN  \E raises \in BOOLEAN, list \in CallbackEffects(guarded.callbacks) :
              guarded' =
                 [g EXCEPT !.callbacks = list,
                           !.raised = @ \/ raises,
                           !.pending = Tail(@),
                           !.pc = IF over THEN "free" ELSE "notifying",
                           !.lock = IF over THEN 0 ELSE @,
                           !.ret = IF over THEN "returned" ELSE @]
    /\ UNCHANGED guardedOthers

\* The value getter.
ValueGet ==
    /\ guarded.pc = "free"
    /\ guarded' = [guarded EXCEPT !.got = guarded.value]
    /\ UNCHANGED guardedOthers

\* add_callback(callback) from a thread that gets the lock.
AddCallback ==
    /\ guarded.pc = "free"
    /\ \E c \in CallbackIds :
         guarded' = [guarded EXCEPT
                        !.callbacks = WithCallback(@, c),
                        !.last = [op |-> "add_callback", cb |-> c,
                                  present |-> InList(guarded.callbacks, c),
                                  ret |-> "returned"]]
    /\ UNCHANGED guardedOthers

\* remove_callback(callback) from a thread that gets the lock.
RemoveCallback ==
    /\ guarded.pc = "free"
    /\ \E c \in CallbackIds :
         guarded' = [guarded EXCEPT
                        !.callbacks = WithoutCallback(@, c),
                        !.last = [op |-> "remove_callback", cb |-> c,
                                  present |-> InList(guarded.callbacks, c),
                                  ret |-> "returned"]]
    /\ UNCHANGED guardedOthers

InitValue ==
    /\ CoreInit
    /\ main = MainInit
    /\ vstream = VstreamIdle
    /\ notifier = NotifierIdle
    /\ framing = FramingIdle
    /\ stream = StreamIdle
    /\ guarded \in GuardedInits
    /\ control = ControlIdle
    /\ link = LinkIdle

NextValue ==
    \/ ValueSet
    \/ NotifyCall
    \/ ValueGet
    \/ AddCallback
    \/ RemoveCallback

SpecValue == InitValue /\ [][NextValue]_vars

\* --------------------------- Connection: SocketConnection, DummyConnection

MaxLinkOps == 4

linkOthers == <<coreVars, main, framing, stream, guarded, control, vstream,
        notifier>>

\* What the caller sends, what the peer has to send, and the sizes asked of
\* receive (4096 is its default).
SendData == {<<1>>, <<1, 2>>}

PeerData == {<<>>, <<7, 8>>}

ReceiveSizes == {1, 2, 4096}

\* No send or receive in flight.
NoIo ==
    [pc |-> "none", op |-> "none", data |-> <<>>, size |-> 0,
     overlapped |-> FALSE, shut |-> FALSE]

\* No send or receive finished yet.
NoRes ==
    [op |-> "none", kind |-> "none", data |-> <<>>, size |-> 0,
     overlapped |-> FALSE]

\* A connection of either class after its constructor: DISCONNECTED, the
\* socket not yet connected (a DummyConnection has none), the buffer empty.
\* io is the send or receive a second thread is inside, res the outcome of
\* the last one finished, last the last connect/disconnect/close.  sent and
\* received are the bytes that went through a DummyConnection, cleared tells
\* that close() dropped buffered bytes, timed_out that a send or receive has
\* ended in TimeoutError.
LinkInits ==
    [pc : {"ready"},
     kind : {"socket", "dummy"},
     conn_state : {"DISCONNECTED"},
     sock : {"fresh"},
     peer : {"open"},
     peer_pending : PeerData,
     incoming : {<<>>},
     wire : {<<>>},
     buffer : {<<>>},
     sent : {<<>>},
     received : {<<>>},
     cleared : {FALSE},
     timed_out : {FALSE},
     io : {NoIo},
     res : {NoRes},
     last : {[op |-> "none", ret |-> "none"]},
     ops : {0}]

\* The in-flight operation as a close() or disconnect() leaves it: it has
\* overlapped the call, and a receive blocked in recv is woken by shutdown.
Overlapped(io, shutdown) ==
    IF io.pc = "none" THEN io
    ELSE [io EXCEPT !.overlapped = TRUE,
                    !.shut = @ \/ (shutdown /\ io.pc = "blocked")]

\* Variant of SocketConnect that treats a missing socket as a failed connect.
SocketConnectMutantGuardsSocket(c, accepted) ==
    IF c.conn_state = "CONNECTED"
    THEN [c EXCEPT !.last = [op |-> "connect", ret |-> "returned"]]
    ELSE IF c.sock = "fresh" /\ accepted
    THEN [c EXCEPT !.conn_state = "CONNECTED",
                   !.sock = "connected",
                   !.last = [op |-> "connect", ret |-> "returned"]]
    ELSE [c EXCEPT !.conn_state = "DISCONNECTED",
                   !.last = [op |-> "connect", ret |-> "ConnectionError"]]

\* SocketConnection.connect: returns at once when CONNECTED; otherwise the
\* state becomes CONNECTING and the socket is configured and connected.  A
\* socket error gives DISCONNECTED and ConnectionError; a socket that close()
\* has set to None gives AttributeError, which is not caught, and the state
\* stays CONNECTING.  A socket that is already connected refuses a second
\* connect with a socket error.
SocketConnect(c, accepted) ==
    IF c.conn_state = "CONNECTED"
    THEN [c EXCEPT !.last = [op |-> "connect", ret |-> "returned"]]
    ELSE IF c.sock = "none"
    THEN [c EXCEPT !.conn_state = "CONNECTING",
                   !.last = [op |-> "connect", ret |-> "AttributeError"]]
    ELSE IF c.sock = "fresh" /\ accepted
    THEN [c EXCEPT !.conn_state = "CONNECTED",
                   !.sock = "connected",
                   !.last = [op |-> "connect", ret |-> "returned"]]
    ELSE [c EXCEPT !.conn_state = "DISCONNECTED",
                   !.last = [op |-> "connect", ret |-> "ConnectionError"]]

\* SocketConnection.close under the lock: nothing when DISCONNECTED; otherwise
\* the socket is closed and forgotten and the state becomes DISCONNECTED.
SocketClose(c) ==
    IF c.conn_state = "DISCONNECTED" THEN c
    ELSE [c EXCEPT !.sock = "none", !.conn_state = "DISCONNECTED"]

\* connect(host, port) by the owner of the connection.
LinkConnect ==
    /\ link.pc = "ready"
    /\ link.ops < MaxLinkOps
    /\ LET c == [link EXCEPT !.ops = @ + 1]
       IN  IF link.kind = "dummy"
           THEN link' = [c EXCEPT !.conn_state = "CONNECTED",
                                  !.last = [op |-> "connect",
                                            ret |-> "returned"]]
           ELSE \E accepted \in BOOLEAN : link' = SocketConnect(c, accepted)
    /\ UNCHANGED linkOthers

\* disconnect() by the owner: a DummyConnection becomes DISCONNECTED; a
\* SocketConnection that is not DISCONNECTED shuts its socket down, if it has
\* one, and closes.
LinkDisconnect ==
    /\ link.pc = "ready"
    /\ link.ops < MaxLinkOps
    /\ LET c == [link EXCEPT !.ops = @ + 1,
                             !.last = [op |-> "disconnect",
                                       ret |-> "returned"]]
       IN  IF link.kind = "dummy"
           THEN link' = [c EXCEPT !.conn_state = "DISCONNECTED"]
           ELSE link' = [SocketClose(c) EXCEPT
                            !.io = IF link.conn_state = "DISCONNECTED"
                                   THEN @ ELSE Overlapped(@, TRUE)]
    /\ UNCHANGED linkOthers

\* close() by the owner: a DummyConnection becomes DISCONNECTED and drops its
\* buffer; a SocketConnection closes as above.
LinkClose ==
    /\ link.pc = "ready"
    /\ link.ops < MaxLinkOps
    /\ LET c == [link EXCEPT !.ops = @ + 1,
                             !.last = [op |-> "close", ret |-> "returned"],
                             !.io = Overlapped(@, FALSE)]
       IN  IF link.kind = "dummy"
           THEN link' = [c EXCEPT !.conn_state = "DISCONNECTED",
                                  !.buffer = <<>>,
                                  !.cleared = @ \/ link.buffer # <<>>]
           ELSE link' = SocketClose(c)
    /\ UNCHANGED linkOthers

\* The outcome of a send or receive that ended.
Outcome(io, kind, data) ==
    [op |-> io.op, kind |-> kind, data |-> data, size |-> io.size,
     overlapped |-> io.overlapped]

\* The connection c once its send or receive has ended in that outcome.
Ended(c, kind, data) ==
    [c EXCEPT !.io = NoIo,
              !.res = Outcome(c.io, kind, data),
              !.timed_out = @ \/ kind = "TimeoutError"]

\* send(data) and receive(size) start with the state test, made without the
\* lock: ConnectionError unless CONNECTED.
LinkIoBegin ==
    /\ link.pc = "ready"
    /\ link.io.pc = "none"
    /\ link.ops < MaxLinkOps
    /\ \E io \in {[NoIo EXCEPT !.op = "send", !.data = d] : d \in SendData}
             \cup {[NoIo EXCEPT !.op = "receive", !.size = n] :
                     n \in ReceiveSizes} :
         IF link.conn_state # "CONNECTED"
         THEN link' = [link EXCEPT !.ops = @ + 1,
                                   !.res = Outcome(io, "ConnectionError", <<>>)]
         ELSE link' = [link EXCEPT !.ops = @ + 1,
                                   !.io = [io EXCEPT !.pc = "checked"]]
    /\ UNCHANGED linkOthers

\* send past the state test.  DummyConnection: the bytes join the buffer.
\* SocketConnection: one sendall on the socket, AttributeError if close() has
\* set it to None; a timeout gives TimeoutError, a socket error DISCONNECTED
\* and ConnectionError.
LinkSend ==
    /\ link.pc = "ready"
    /\ link.io.pc = "checked"
    /\ link.io.op = "send"
    /\ LET data == link.io.data
       IN  IF link.kind = "dummy"
           THEN link' = [Ended(link, "returned", data) EXCEPT
                            !.buffer = @ \o data,
                            !.sent = @ \o data]
           ELSE IF link.sock = "none"
           THEN link' = Ended(link, "AttributeError", <<>>)
           ELSE \E o \in SendAllOutcomes(data) :
                   link' =
                      [Ended(link,
                             CASE o.result = "ok" -> "returned"
                               [] o.result = "socket.timeout" -> "TimeoutError"
                               [] o.result = "socket.error" -> "ConnectionError",
                             o.written)
                       EXCEPT
                          !.wire = @ \o o.written,
                          !.conn_state = IF o.result = "socket.error"
                                         THEN "DISCONNECTED" ELSE @]
    /\ UNCHANGED linkOthers

\* Variant of DummyReceive that keeps one byte too few in the buffer.
DummyReceiveMutantDropsByte(c) ==
    LET n == Min(c.io.size, Len(c.buffer))
        result == SubSeq(c.buffer, 1, n)
    IN  [Ended(c, "data", result) EXCEPT
            !.buffer = SubSeq(@, n + 2, Len(@)),
            !.received = @ \o result]

\* DummyConnection.receive past the state test: the first size bytes of the
\* buffer, which keeps the rest; an empty buffer gives the empty byte string.
DummyReceive(c) ==
    LET n == Min(c.io.size, Len(c.buffer))
        result == SubSeq(c.buffer, 1, n)
    IN  [Ended(c, "data", result) EXCEPT
            !.buffer = SubSeq(@, n + 1, Len(@)),
            !.received = @ \o result]

\* receive past the state test: a DummyConnection answers from its buffer; a
\* SocketConnection enters recv on its socket, AttributeError if close() has
\* set it to None.
LinkReceive ==
    /\ link.pc = "ready"
    /\ link.io.pc = "checked"
    /\ link.io.op = "receive"
    /\ IF link.kind = "dummy"
       THEN link' = DummyReceive(link)
       ELSE IF link.sock = "none"
       THEN link' = Ended(link, "AttributeError", <<>>)
       ELSE link' = [link EXCEPT !.io.pc = "blocked"]
    /\ UNCHANGED linkOthers

\* Variant of SocketRecvEnds in which a timeout marks the connection
\* DISCONNECTED.
SocketRecvEndsMutantTimeoutDisconnects(c) ==
    LET lost == [Ended(c, "ConnectionError", <<>>) EXCEPT
                    !.conn_state = "DISCONNECTED"]
        late == [Ended(c, "TimeoutError", <<>>) EXCEPT
                 !.conn_state = "DISCONNECTED"]
    IN  IF c.sock = "none"
        THEN IF c.io.shut THEN {lost} ELSE {lost, late}
        ELSE IF c.incoming # <<>>
        THEN {[Ended(c, "data", SubSeq(c.incoming, 1, k)) EXCEPT
                  !.incoming = SubSeq(@, k + 1, Len(@))] :
                k \in 1..Min(c.io.size, Len(c.incoming))}
        ELSE IF c.peer = "closed" THEN {lost} ELSE {late}

\* The ways recv on the socket ends, each with the connection it leaves.
\* Bytes that have arrived are returned, at most size of them; the peer's
\* close gives the empty read, so DISCONNECTED and ConnectionError; no byte in
\* time gives TimeoutError.  When the socket was closed under the call, a
\* shutdown ends it with the empty read, and a bare close ends it either with
\* a socket error or with the timeout.
SocketRecvEnds(c) ==
    LET lost == [Ended(c, "ConnectionError", <<>>) EXCEPT
                    !.conn_state = "DISCONNECTED"]
        late == Ended(c, "TimeoutError", <<>>)
    IN  IF c.sock = "none"
        THEN IF c.io.shut THEN {lost} ELSE {lost, late}
        ELSE IF c.incoming # <<>>
        THEN {[Ended(c, "data", SubSeq(c.incoming, 1, k)) EXCEPT
                  !.incoming = SubSeq(@, k + 1, Len(@))] :
                k \in 1..Min(c.io.size, Len(c.incoming))}
        ELSE IF c.peer = "closed" THEN {lost} ELSE {late}

\* SocketConnection.receive: recv returns or raises.
LinkRecvEnds ==
    /\ link.pc = "ready"
    /\ link.io.pc = "blocked"
    /\ link' \in SocketRecvEnds(link)
    /\ UNCHANGED linkOthers

\* The peer writes some of what it has to send.
PeerSends ==
    /\ link.pc = "ready"
    /\ link.sock = "connected"
    /\ link.peer = "open"
    /\ link.peer_pending # <<>>
    /\ \E k \in 1..Len(link.peer_pending) :
         link' = [link EXCEPT
                     !.incoming = @ \o SubSeq(link.peer_pending, 1, k),
                     !.peer_pending = SubSeq(@, k + 1, Len(@))]
    /\ UNCHANGED linkOthers

\* The peer closes its end.
PeerCloses ==
    /\ link.pc = "ready"
    /\ link.sock = "connected"
    /\ link.peer = "open"
    /\ link' = [link EXCEPT !.peer = "closed"]
    /\ UNCHANGED linkOthers

InitLink ==
    /\ CoreInit
    /\ main = MainInit
    /\ vstream = VstreamIdle
    /\ notifier = NotifierIdle
    /\ framing = FramingIdle
    /\ stream = StreamIdle
    /\ guarded = GuardedIdle
    /\ control = ControlIdle
    /\ link \in LinkInits

NextLink ==
    \/ LinkConnect
    \/ LinkDisconnect
    \/ LinkClose
    \/ LinkIoBegin
    \/ LinkSend
    \/ LinkReceive
    \/ LinkRecvEnds
    \/ PeerSends
    \/ PeerCloses

SpecLink == InitLink /\ [][NextLink]_vars

\* ---------------------------------- timeouts: Connection and VideoStream

\* Either a connection with the threads using it, or a video stream with its
\* reader and the thread calling get_frame.
InitTimeout ==
    /\ CoreInit
    /\ main = MainInit
    /\ vstream = VstreamIdle
    /\ notifier = NotifierIdle
    /\ framing = FramingIdle
    /\ guarded = GuardedIdle
    /\ control = ControlIdle
    /\ \/ link \in LinkInits /\ stream = StreamIdle
       \/ link = LinkIdle /\ stream \in StreamInits

NextTimeout ==
    \/ LinkConnect
    \/ LinkDisconnect
    \/ LinkClose
    \/ LinkIoBegin
    \/ LinkSend
    \/ LinkReceive
    \/ LinkRecvEnds
    \/ PeerSends
    \/ PeerCloses
    \/ StreamLoopExit
    \/ StreamReadHeader
    \/ StreamReadPayload
    \/ StreamReceiveTimeout
    \/ StreamConnectionError
    \/ StreamStop
    \/ StreamGetFrame
    \/ StreamGetWakes
    \/ StreamGetTimesOut

SpecTimeout == InitTimeout /\ [][NextTimeout]_vars

\* ------------------------------- VideoStream: start(), stop(), its readers

\* Number of start()/stop() calls made on the stream.
MaxStreamCalls == 4
\* Number of reader threads the start() calls may create.
MaxReaders == 3

vstreamOthers == <<coreVars, main, framing, stream, guarded, control, link,
        notifier>>

\* VideoStream.__init__ over a connection that is CONNECTED.  Each reader
\* thread ever started is kept with its position and with the number of the
\* start() that was the latest when it last passed the loop test.
VstreamInit ==
    [pc |-> "ready", caller |-> "idle", conn_state |-> "CONNECTED",
     running |-> FALSE, frame_ready |-> FALSE, thread |-> 0,
     readers |-> <<>>, starts |-> 0, calls |-> 0,
     last |-> [op |-> "none", ret |-> "none", timed_out |-> FALSE]]

\* threading.Thread.is_alive() of reader r
ReaderAlive(r) == vstream.readers[r].pc # "ended"

\* start(): under the lock, return if running; raise ConnectionError unless
\* the connection is CONNECTED; else set _running, clear frame_ready and
\* start a new reader thread.
VstreamStart ==
    /\ vstream.pc = "ready"
    /\ vstream.caller = "idle"
    /\ vstream.calls < MaxStreamCalls
    /\ Len(vstream.readers) < MaxReaders
    /\ vstream' =
         IF vstream.running
            THEN [vstream EXCEPT !.calls = @ + 1,
                    !.last = [op |-> "start", ret |-> "already_running",
                              timed_out |-> FALSE]]
            ELSE IF vstream.conn_state # "CONNECTED"
                    THEN [vstream EXCEPT !.calls = @ + 1,
                            !.last = [op |-> "start", ret |-> "ConnectionError",
                                      timed_out |-> FALSE]]
                    ELSE [vstream EXCEPT !.calls = @ + 1,
                            !.running = TRUE,
                            !.frame_ready = FALSE,
                            !.readers = Append(@, [pc |-> "test", run |-> 0]),
                            !.thread = Len(vstream.readers) + 1,
                            !.starts = @ + 1,
                            !.last = [op |-> "start", ret |-> "returned",
                                      timed_out |-> FALSE]]
    /\ UNCHANGED vstreamOthers

\* stop(): under the lock, return if not running; else clear _running, set
\* frame_ready and, if the reader thread is alive, join it.
VstreamStop ==
    /\ vstream.pc = "ready"
    /\ vstream.caller = "idle"
    /\ vstream.calls < MaxStreamCalls
    /\ vstream' =
         IF ~vstream.running
            THEN [vstream EXCEPT !.calls = @ + 1,
                    !.last = [op |-> "stop", ret |-> "not_running",
                              timed_out |-> FALSE]]
            ELSE IF vstream.thread # 0 /\ ReaderAlive(vstream.thread)
                    THEN [vstream EXCEPT !.calls = @ + 1,
                            !.running = FALSE, !.frame_ready = TRUE,
                            !.caller = "join"]
                    ELSE [vstream EXCEPT !.calls = @ + 1,
                            !.running = FALSE, !.frame_ready = TRUE,
                            !.thread = 0,
                            !.last = [op |-> "stop", ret |-> "returned",
                                      timed_out |-> FALSE]]
    /\ UNCHANGED vstreamOthers

\* stop(): self._thread.join(timeout=2.0) returns, the reader having ended
\* or the timeout having run out with the reader inside a receive or a
\* frame callback; self._thread = None.
VstreamJoinReturns ==
    /\ vstream.pc = "ready"
    /\ vstream.caller = "join"
    /\ vstream.readers[vstream.thread].pc \in {"ended", "body"}
    /\ vstream' = [vstream EXCEPT
           !.caller = "idle", !.thread = 0,
           !.last = [op |-> "stop", ret |-> "returned",
                     timed_out |-> ReaderAlive(vstream.thread)]]
    /\ UNCHANGED vstreamOthers

\* _stream_loop: while self._running.value.  True: the body is entered
\* (receive, store the frame, callback).  False: the loop ends and the
\* finally clause clears _running.
ReaderTest(r) ==
    /\ vstream.pc = "ready"
    /\ r \in DOMAIN vstream.readers
    /\ vstream.readers[r].pc = "test"
    /\ vstream' =
         IF vstream.running
            THEN [vstream EXCEPT !.readers[r] =
                                    [pc |-> "body", run |-> vstream.starts]]
            ELSE [vstream EXCEPT !.readers[r].pc = "ended",
                                 !.running = FALSE]
    /\ UNCHANGED vstreamOthers

\* _stream_loop: one pass through the body ends without ConnectionError (a
\* frame, a short read, a timeout): back to the loop test.  A completed
\* frame sets frame_ready.
ReaderBodyEnds(r) ==
    /\ vstream.pc = "ready"
    /\ r \in DOMAIN vstream.readers
    /\ vstream.readers[r].pc = "body"
    /\ vstream.conn_state = "CONNECTED"
    /\ \E frame \in BOOLEAN :
          vstream' = [vstream EXCEPT !.readers[r].pc = "test",
                                     !.frame_ready = @ \/ frame]
    /\ UNCHANGED vstreamOthers

\* _stream_loop: receive raises ConnectionError (the connection is not
\* CONNECTED any more): _running is cleared and the loop ends.
ReaderConnectionError(r) ==
    /\ vstream.pc = "ready"
    /\ r \in DOMAIN vstream.readers
    /\ vstream.readers[r].pc = "body"
    /\ vstream.conn_state # "CONNECTED"
    /\ vstream' = [vstream EXCEPT !.readers[r].pc = "ended",
                                  !.running = FALSE]
    /\ UNCHANGED vstreamOthers

\* The connection under the stream is closed, by the peer or by close().
VstreamConnectionCloses ==
    /\ vstream.pc = "ready"
    /\ vstream.conn_state = "CONNECTED"
    /\ vstream' = [vstream EXCEPT !.conn_state = "DISCONNECTED"]
    /\ UNCHANGED vstreamOthers

ReaderTests == \E r \in 1..MaxReaders : ReaderTest(r)

ReaderBodiesEnd == \E r \in 1..MaxReaders : ReaderBodyEnds(r)

ReaderConnectionErrors == \E r \in 1..MaxReaders : ReaderConnectionError(r)

InitVstream ==
    /\ CoreInit
    /\ main = MainInit
    /\ framing = FramingIdle
    /\ stream = StreamIdle
    /\ guarded = GuardedIdle
    /\ control = ControlIdle
    /\ link = LinkIdle
    /\ vstream = VstreamInit
    /\ notifier = NotifierIdle

NextVstream ==
    \/ VstreamStart
    \/ VstreamStop
    \/ VstreamJoinReturns
    \/ ReaderTests
    \/ ReaderBodiesEnd
    \/ ReaderConnectionErrors
    \/ VstreamConnectionCloses

SpecVstream == InitVstream /\ [][NextVstream]_vars

\* ------------------------------- Main.py _set_state under concurrent calls

\* Number of threads calling _set_state (through connect(), disconnect(),
\* _handle_connection_error()).
NumSetters == 2
\* Number of _set_state calls made in all.
MaxStateSets == 3

\* class ConnectionState(Enum) of Client/Main.py
MainStates == {"DISCONNECTED", "CONNECTING", "CONNECTED", "ERROR"}

SetterIds == 1..NumSetters

notifierOthers == <<coreVars, main, framing, stream, guarded, control, link,
                    vstream>>

\* A thread outside _set_state.
SetterIdle == [pc |-> "idle", old_state |-> "none", new_state |-> "none"]

\* NetworkManager.__init__: the state is DISCONNECTED.  took lists the
\* values the state has been given, delivered the notifications made, each
\* with the value the state held just before the new one was stored.
NotifierInit ==
    [pc |-> "ready", value |-> "DISCONNECTED",
     setters |-> [i \in SetterIds |-> SetterIdle],
     took |-> <<>>, delivered |-> <<>>, before |-> [i \in SetterIds |-> "none"],
     sets |-> 0]

\* _set_state(new_state): old_state = self._state.value, read under the
\* value's lock; if old_state equals new_state the call returns.
SetStateReads(i, new_state) ==
    /\ notifier.pc = "ready"
    /\ notifier.setters[i].pc = "idle"
    /\ notifier.sets < MaxStateSets
    /\ notifier' = [notifier EXCEPT
           !.sets = @ + 1,
           !.setters[i] =
               IF notifier.value # new_state
                  THEN [pc |-> "store", old_state |-> notifier.value,
                        new_state |-> new_state]
                  ELSE SetterIdle]
    /\ UNCHANGED notifierOthers

\* self._state.value = new_state: the ThreadSafeValue setter, which under
\* its lock assigns if the value differs (no callback is registered on it).
SetStateStores(i) ==
    /\ notifier.pc = "ready"
    /\ notifier.setters[i].pc = "store"
    /\ LET new_state == notifier.setters[i].new_state
       IN notifier' = [notifier EXCEPT
              !.value = new_state,
              !.took = IF notifier.value # new_state
                          THEN Append(@, new_state) ELSE @,
              !.before[i] = notifier.value,
              !.setters[i].pc = "notify"]
    /\ UNCHANGED notifierOthers

\* self._on_state_changed(old_state, new_state): the client's handler is
\* called with the pair; an exception it raises is logged.
SetStateNotifies(i) ==
    /\ notifier.pc = "ready"
    /\ notifier.setters[i].pc = "notify"
    /\ notifier' = [notifier EXCEPT
           !.delivered = Append(@, [old |-> notifier.setters[i].old_state,
                                    new |-> notifier.setters[i].new_state,
                                    before |-> notifier.before[i]]),
           !.setters[i] = SetterIdle]
    /\ UNCHANGED notifierOthers

SetStateCalled == \E i \in SetterIds, s \in MainStates : SetStateReads(i, s)

SetStateStored == \E i \in SetterIds : SetStateStores(i)

SetStateNotified == \E i \in SetterIds : SetStateNotifies(i)

InitNotifier ==
    /\ CoreInit
    /\ main = MainInit
    /\ framing = FramingIdle
    /\ stream = StreamIdle
    /\ guarded = GuardedIdle
    /\ control = ControlIdle
    /\ link = LinkIdle
    /\ vstream = VstreamIdle
    /\ notifier = NotifierInit

NextNotifier ==
    \/ SetStateCalled
    \/ SetStateStored
    \/ SetStateNotified

SpecNotifier == InitNotifier /\ [][NextNotifier]_vars

\* ------------------------------------------- the core manager, scheduled

\* Every thread that can run does run: the connection threads and the caller
\* inside connect()/disconnect() are scheduled.  Nothing obliges the caller to
\* make a new call, and nothing obliges the peer to close or to send.
SpecFair ==
    /\ Init
    /\ [][Next]_vars
    /\ WF_vars(\E t \in ThreadIds : LoopStep(t))
    /\ WF_vars(CallerStep)

\* ------------------------------------------------------------- claims

\* The connect() call that started thread t is the caller's last call.
LastCallStarted(t) ==
    /\ caller.op = "connect"
    /\ caller.pc = "idle"
    /\ caller.entry # "CONNECTED"
    /\ reconnect_thread = t

\* Thread t left _connect_loop because every attempt failed.
GaveUp(t) == threads[t].pc = "done" /\ threads[t].attempt >= ReconnectAttempts

\* Thread t built and started its two channels (the attempt connected both).
Succeeded(t) == threads[t].control.chan # "none"

RECURSIVE SumSeq(_)
SumSeq(s) == IF s = <<>> THEN 0 ELSE Head(s) + SumSeq(Tail(s))

\* C1: connect() called while the state is not DISCONNECTED raises
\* InvalidStateError (and changes nothing). Stated on the outcome of the
\* call: a connect() entered in another state never returns normally.
C1_ConnectRejectedUnlessDisconnected ==
    (caller.op = "connect" /\ caller.pc = "idle" /\ caller.entry # "DISCONNECTED")
        => caller.ret = "InvalidStateError"

\* The state changes the claim C2 lists.
ClaimedTransitions ==
    {<<"DISCONNECTED", "CONNECTING">>, <<"CONNECTING", "CONNECTED">>,
     <<"CONNECTING", "DISCONNECTED">>, <<"CONNECTING", "ERROR">>,
     <<"CONNECTED", "ERROR">>, <<"CONNECTED", "DISCONNECTING">>,
     <<"DISCONNECTING", "DISCONNECTED">>}

\* C2: every change of the manager state that leaves DISCONNECTED,
\* CONNECTING, CONNECTED or DISCONNECTING is one of the listed transitions;
\* in particular DISCONNECTED -> CONNECTED never occurs. The change
\* CONNECTING -> DISCONNECTING, which a disconnect() issued during a connect
\* makes, is let through here: the claim is refuted without counting it.
C2_TransitionsFollowGraph ==
    [][state' # state =>
          <<state, state'>> \in
              ClaimedTransitions \cup {<<"CONNECTING", "DISCONNECTING">>}]_vars

\* C3: whenever connect() returns without raising, the state the caller
\* observes is CONNECTED and both channels are present.
C3_ConnectReturnsConnected ==
    (caller.op = "connect" /\ caller.pc = "idle" /\ caller.ret = "returned")
        => (state = "CONNECTED" /\ command_processor # 0 /\ video_stream # 0)

\* C4: if every attempt fails, connect() has made exactly
\* ReconnectAttempts attempts, the state is DISCONNECTED and the connect()
\* call has failed with ConnectionError.
C4_ExhaustedConnectRaises ==
    \A t \in ThreadIds :
        (GaveUp(t) /\ LastCallStarted(t)) =>
            /\ threads[t].attempt = ReconnectAttempts
            /\ state = "DISCONNECTED"
            /\ caller.ret = "ConnectionError"

\* Sleeps thread t has completed, by its position in the loop: one after
\* each failed attempt, none after the last one.
ExpectedSleeps(t) ==
    IF threads[t].pc \in {"sleep", "giveup"} \/ GaveUp(t)
        THEN threads[t].attempt - 1
        ELSE threads[t].attempt

\* C5: after the k-th failed attempt, k < max_attempts, connect sleeps
\* base_delay * 2^(k-1); it does not sleep after the last failed attempt
\* nor after a success; with base_delay 1 and 3 attempts the sleeps add up
\* to 3 both when two attempts fail and the third succeeds and when all fail.
C5_BackoffSchedule ==
    \A t \in ThreadIds :
        /\ Len(threads[t].slept) = ExpectedSleeps(t)
        /\ \A k \in 1..Len(threads[t].slept) :
              threads[t].slept[k] = ReconnectDelay * (2 ^ (k - 1))
        /\ GaveUp(t) => SumSeq(threads[t].slept) = 3
        /\ (Succeeded(t) /\ threads[t].attempt = 2) => SumSeq(threads[t].slept) = 3

\* A connect that failed twice, slept 1 and 2, and then succeeded.
C5_Witness ==
    \E t \in ThreadIds :
        /\ Succeeded(t)
        /\ threads[t].pc = "done"
        /\ threads[t].attempt = 2
        /\ threads[t].slept = <<1, 2>>

\* C6: when an attempt has failed, both of its connections are closed
\* before the next attempt starts and before connect gives up: once the
\* except branch has cleaned up (the thread is about to sleep, to give up,
\* or is back in the loop for a further attempt), neither connection the
\* thread built is still CONNECTED.
C6_FailedAttemptClosed ==
    \A t \in ThreadIds :
        (threads[t].attempt >= 1
            /\ threads[t].pc \in {"sleep", "giveup", "check", "attempt"})
            => /\ threads[t].control.state # "CONNECTED"
               /\ threads[t].video.state # "CONNECTED"

\* The state a completed disconnect() leaves: DISCONNECTED, no thread kept.
SecondDisconnect ==
    /\ caller.op = "disconnect"
    /\ caller.pc # "idle"
    /\ caller.entry = "DISCONNECTED"
    /\ caller.entryThread = 0

\* C7: disconnect() returns, without raising, with the state DISCONNECTED
\* from whatever state it was called in; and a disconnect() called in the
\* state a disconnect() leaves changes nothing in any of its steps: not the
\* state, not the last notification, no field, no connection, no channel.
C7_DisconnectIdempotent ==
    [][/\ (caller.op = "disconnect" /\ caller.pc # "idle" /\ caller'.pc = "idle")
            => (state' = "DISCONNECTED" /\ caller'.ret = "returned")
       /\ (SecondDisconnect /\ caller' # caller)
            => UNCHANGED <<state, notified, mgrFields, reconnect_thread,
                           stop_event, threads>>]_vars

\* connect(), disconnect(), disconnect(): the second disconnect() has returned.
C7_Witness ==
    /\ caller.op = "disconnect"
    /\ caller.pc = "idle"
    /\ caller.ret = "returned"
    /\ caller.entry = "DISCONNECTED"
    /\ caller.entryThread = 0
    /\ calls >= 3
    /\ Len(threads) = 1
    /\ state = "DISCONNECTED"

\* C8: send_command called while the state is not CONNECTED raises
\* ConnectionError, writes nothing to any connection and changes no state.
C8_SendRefusedWhenNotConnected ==
    [][(obs'.op = "send_command" /\ state # "CONNECTED")
          => /\ obs'.result = "ConnectionError"
             /\ ~obs'.io
             /\ UNCHANGED <<state, notified, mgrFields, reconnect_thread,
                            stop_event, lock, threads, caller>>]_vars

\* send_command refused in the middle of _disconnect(), while the command
\* processor is still there and its connection is still CONNECTED.
C8_Witness ==
    /\ obs.op = "send_command"
    /\ obs.result = "ConnectionError"
    /\ state = "DISCONNECTING"
    /\ command_processor # 0
    /\ threads[command_processor].control.state = "CONNECTED"

\* C9: get_video_frame called while the state is not CONNECTED returns None
\* at once: it does not wait on the frame-ready event.
C9_NoFrameWhenNotConnected ==
    (obs.op = "get_video_frame" /\ state # "CONNECTED")
        => (obs.result = "None" /\ ~obs.waited)

\* get_video_frame refused in the middle of _disconnect(), while the video
\* stream is still there, running, with a frame ready.
C9_Witness ==
    /\ obs.op = "get_video_frame"
    /\ obs.result = "None"
    /\ ~obs.waited
    /\ state = "DISCONNECTING"
    /\ video_stream # 0
    /\ threads[video_stream].video.chan = "running"
    /\ threads[video_stream].video.frameReady

\* C10: the command processor and the video stream both exist if and only
\* if the state is CONNECTED or DISCONNECTING, and neither exists in
\* DISCONNECTED and CONNECTING. Read at the states where no thread is
\* inside the manager's lock, which leaves out the half-done states in the
\* middle of connect(), disconnect() and the installation of the channels.
C10_ChannelsIffConnected ==
    lock = "free" =>
        /\ (command_processor # 0 /\ video_stream # 0)
              <=> state \in {"CONNECTED", "DISCONNECTING"}
        /\ state \in {"DISCONNECTED", "CONNECTING", "ERROR"}
              => (command_processor = 0 /\ video_stream = 0)

\* The reader of the video stream the manager has installed gets
\* ConnectionError from receive while the manager is CONNECTED.
InstalledReaderFails ==
    \E t \in ThreadIds :
        /\ t = video_stream
        /\ state = "CONNECTED"
        /\ VideoReaderConnectionError(t)

\* C11: when a reader loop gets ConnectionError from receive, it sets the
\* manager's state to ERROR and terminates: the step in which the reader
\* of the installed video stream fails ends with the state ERROR.
C11_ReaderErrorSetsError ==
    [][InstalledReaderFails => state' = "ERROR"]_vars

\* C12: once a reader has terminated on a connection failure, the state
\* observers have been told of the change to ERROR, and a send_command or
\* get_video_frame made next is refused (ConnectionError, None).
C12_ReaderFailureSurfaces ==
    [][InstalledReaderFails =>
          /\ notified'.new = "ERROR"
          /\ SendRefused'
          /\ FrameRefused']_vars

WireRecords(bytes) ==
    LET segs == Split(bytes, "\n")
    IN [k \in 1..(Len(segs) - 1) |-> Split(segs[k], "#")]

\* A record list without the records of an empty line, which no handler
\* of receive_instruction acts on.
WithoutEmpty(recs) == SelectSeq(recs, LAMBDA r : r # <<<<>>>>)

\* C14: however the stream is cut into chunks, the records handled so far
\* are exactly the newline-terminated segments of the bytes received so
\* far, each split on '#', once each and in wire order; an unterminated
\* tail waits for the next chunk. (Records of empty lines are left out on
\* both sides.)
C14_RecordsAreTerminatedSegments ==
    framing.pc # "idle" =>
        WithoutEmpty(framing.delivered) = WithoutEmpty(WireRecords(framing.received))

\* A get_frame() call on the stream returns in this step.
GetFrameReturns == stream'.gets = stream.gets + 1

\* C15: when the server writes well-formed frames only, every frame
\* get_frame returns is the complete payload of one frame of the wire: the
\* L bytes that followed its header of value L.
C15_ReturnedFrameIsWireFrame ==
    (stream.pc # "idle" /\ stream.wellFormed /\ stream.got.value # NoFrame)
        => \E i \in 1..Len(stream.sent) : stream.sent[i] = stream.got.value

\* C16: a decoded length of 0 or above the maximum is fatal: the reader
\* loop has stopped and no byte after that header has been read.
C16_BadLengthIsFatal ==
    (stream.pc # "idle" /\ stream.bad)
        => (stream.pc = "ended" /\ ~stream.running /\ ~stream.readAfterBad)

C18_NoneOnlyAfterTimeoutOrStop ==
    [][(GetFrameReturns /\ stream'.got.value = NoFrame)
          => (stream'.got.elapsed \/ ~stream.running)]_vars

\* get_frame waited on a running stream until the timeout and got None.
C18_Witness ==
    /\ stream.pc # "idle"
    /\ stream.gets >= 1
    /\ stream.got.value = NoFrame
    /\ stream.got.elapsed
    /\ stream.got.alive

\* C18 as stated: get_frame never returns None before the timeout has
\* elapsed, whatever the reader or stop() does.
C18_NoneOnlyAfterTimeout ==
    [][(GetFrameReturns /\ stream'.got.value = NoFrame)
          => stream'.got.elapsed]_vars

OwedCalls ==
    [i \in 1..Len(guarded.snapshot) |->
        [cb |-> guarded.snapshot[i], old |-> guarded.prior,
         new |-> guarded.lastSet]]

\* C20: once an assignment to a ThreadSafeValue has completed, the value held
\* is the value assigned and a get returns it; if that value differed from the
\* one held before, every callback registered at the assignment has been
\* called exactly once with (old, new), and otherwise no callback has been
\* called and the value is the one held before.
C20_SetNotifiesIffChanged ==
    (guarded.pc = "free" /\ guarded.sets > 0) =>
        /\ guarded.value = guarded.lastSet
        /\ guarded.got \in {"unread", guarded.lastSet}
        /\ IF guarded.prior # guarded.lastSet
           THEN guarded.log = OwedCalls
           ELSE guarded.log = <<>> /\ guarded.value = guarded.prior

\* C20 happens: an assignment of a different value has called both registered
\* callbacks, one of which raised, and a get has returned the new value.
C20_Witness ==
    /\ guarded.pc = "free"
    /\ guarded.sets = 2
    /\ guarded.prior = "CONNECTING"
    /\ guarded.lastSet = "CONNECTED"
    /\ Len(guarded.snapshot) = 2
    /\ Len(guarded.log) = 2
    /\ guarded.raised
    /\ guarded.got = "CONNECTED"

\* A step in which _notify_observers calls a callback.
CallbackRuns ==
    /\ guarded.pc = "notifying"
    /\ Len(guarded'.log) = Len(guarded.log) + 1

\* C21: a ThreadSafeValue calls no callback while its lock is held: whenever
\* a callback runs, the notifying thread holds the value's lock zero times.
C21_CallbacksRunUnlocked == [][CallbackRuns => guarded.lock = 0]_vars

\* C22: an assignment during which a callback raised has returned to its
\* caller without an exception, the new value is stored, and every callback
\* registered at the assignment has been called for it.
C22_RaisingCallbackIsContained ==
    (guarded.pc = "free" /\ guarded.sets > 0 /\ guarded.raised) =>
        /\ guarded.ret = "returned"
        /\ guarded.value = guarded.lastSet
        /\ guarded.log = OwedCalls

\* C22 happens: two callbacks were registered, one raised during the
\* assignment, both were called and the assignment returned.
C22_Witness ==
    /\ guarded.pc = "free"
    /\ guarded.raised
    /\ guarded.ret = "returned"
    /\ Len(guarded.snapshot) = 2
    /\ Len(guarded.log) = 2
    /\ guarded.value = guarded.lastSet
    /\ guarded.value # guarded.prior

\* No callback is twice in the list.
NoDuplicateCallback(list) ==
    \A i, j \in 1..Len(list) : list[i] = list[j] => i = j

\* C23: add_callback of a callback already registered and remove_callback of
\* one not registered return normally and leave the callback list as it was;
\* no callback is ever in the list twice, so it is called once per change.
C23_RegistrationIsIdempotent ==
    [][(guarded.pc = "free" /\ guarded'.last # guarded.last) =>
          /\ guarded'.last.ret = "returned"
          /\ NoDuplicateCallback(guarded'.callbacks)
          /\ (guarded'.last.op = "add_callback" /\ guarded'.last.present)
                => guarded'.callbacks = guarded.callbacks
          /\ (guarded'.last.op = "remove_callback" /\ ~guarded'.last.present)
                => guarded'.callbacks = guarded.callbacks]_vars

\* C23 happens: a registered callback has been added again, the list still
\* holds it once, and the change made afterwards called it once.
C23_Witness ==
    /\ guarded.pc = "free"
    /\ guarded.last.op = "add_callback"
    /\ guarded.last.present
    /\ guarded.callbacks = <<1>>
    /\ guarded.snapshot = <<1>>
    /\ Len(guarded.log) = 1
    /\ guarded.sets = 2

OverlappedIoEnds ==
    /\ link.pc = "ready"
    /\ link.io.pc # "none"
    /\ link.io.overlapped
    /\ link'.io.pc = "none"

\* C25: every close() returns normally and leaves the connection
\* DISCONNECTED, and a send or receive that a close() has overlapped ends in
\* ConnectionError.
C25_CloseIsSafeUnderIo ==
    [][/\ LinkClose =>
            link'.last.ret = "returned" /\ link'.conn_state = "DISCONNECTED"
       /\ OverlappedIoEnds => link'.res.kind = "ConnectionError"]_vars

\* C26: a receive(max_size) that no close() has overlapped has returned
\* between 1 and max_size bytes, or has signalled ConnectionError, or has
\* signalled TimeoutError; it has not returned the empty byte string.
C26_ReceiveHasThreeOutcomes ==
    (link.pc = "ready" /\ link.res.op = "receive" /\ ~link.res.overlapped) =>
        \/ /\ link.res.kind = "data"
           /\ Len(link.res.data) \in 1..link.res.size
        \/ link.res.kind \in {"ConnectionError", "TimeoutError"}

\* C27: as long as no close() has dropped buffered bytes, the bytes a
\* DummyConnection has returned from receive, followed by the bytes it still
\* buffers, are the bytes passed to send, in order: what was received is a
\* prefix of what was sent, and nothing is lost or comes twice.
C27_DummyIsFifoEcho ==
    (link.pc = "ready" /\ link.kind = "dummy" /\ ~link.cleared) =>
        /\ link.received \o link.buffer = link.sent
        /\ Len(link.received) <= Len(link.sent)
        /\ link.received = SubSeq(link.sent, 1, Len(link.received))

\* C27 happens: two sends, then a receive that returned the first bytes and
\* left the last one buffered.
C27_Witness ==
    /\ link.pc = "ready"
    /\ link.kind = "dummy"
    /\ ~link.cleared
    /\ link.sent = <<1, 2, 1>>
    /\ link.res.op = "receive"
    /\ link.res.data = <<1, 2>>
    /\ link.received = <<1, 2>>
    /\ link.buffer = <<1>>

\* A step in which a send or receive on the connection ends in TimeoutError.
IoTimesOut ==
    /\ link.pc = "ready"
    /\ link.io.pc # "none"
    /\ link'.io.pc = "none"
    /\ link'.res.kind = "TimeoutError"

\* C28: a timeout destroys nothing.  A send or receive that ends in
\* TimeoutError leaves the connection's state, its socket and the bytes
\* waiting to be read as they were, so a connection that nobody closed is
\* still CONNECTED; a get_frame that times out leaves the stream running as
\* it was and its reader where it was in the byte stream.
C28_TimeoutIsNonDestructive ==
    [][/\ IoTimesOut =>
            /\ link'.conn_state = link.conn_state
            /\ link'.sock = link.sock
            /\ link'.incoming = link.incoming
            /\ ~link.io.overlapped => link'.conn_state = "CONNECTED"
       /\ (stream.pc # "idle" /\ StreamGetTimesOut) =>
            /\ stream'.running = stream.running
            /\ stream'.pc = stream.pc
            /\ stream'.wire = stream.wire
            /\ stream'.frame_data = stream.frame_data
            /\ stream'.current_frame = stream.current_frame]_vars

\* C28 happens: a receive timed out and the next receive on the same
\* connection returned the bytes that arrived afterwards.
C28_Witness ==
    /\ link.pc = "ready"
    /\ link.kind = "socket"
    /\ link.timed_out
    /\ link.conn_state = "CONNECTED"
    /\ link.res.op = "receive"
    /\ link.res.kind = "data"
    /\ link.res.data = <<7, 8>>
    /\ ~link.res.overlapped

\* C29: a command channel or video stream that a connection thread started
\* and left running is the one the manager references, so at most one of
\* each is running once the threads are through.
C29_RunningChannelsAreOwned ==
    \A t \in DOMAIN threads :
        threads[t].pc = "done" =>
            /\ threads[t].control.chan = "running" => command_processor = t
            /\ threads[t].video.chan = "running" => video_stream = t

\* An established connection has dropped: the manager is CONNECTED and the
\* reader of the video stream it holds has ended on ConnectionError.
Dropped ==
    /\ state = "CONNECTED"
    /\ video_stream # 0
    /\ threads[video_stream].video.chan = "stopped"
    /\ threads[video_stream].video.state = "DISCONNECTED"

\* The manager is CONNECTED over a video stream whose reader runs.
Reestablished ==
    /\ state = "CONNECTED"
    /\ video_stream # 0
    /\ threads[video_stream].video.chan = "running"

\* C30: once an established connection has dropped, the manager comes back
\* to a connection that works unless the caller makes a new call first.
C30_ReconnectsAfterDrop == Dropped ~> (Reestablished \/ caller.pc # "idle")

\* A step of disconnect() in which VideoStream.stop() signals its running
\* reader and joins it.
ReaderJoined ==
    /\ StopVideoStream
    /\ video_stream # 0
    /\ threads[video_stream].video.chan = "running"

\* C31: in a disconnect() entered from CONNECTED, when the video reader is
\* joined the state is DISCONNECTING and the control and video connections
\* the manager holds have already been closed.
C31_ClosedBeforeJoin ==
    [][(caller.op = "disconnect" /\ caller.entry = "CONNECTED" /\ ReaderJoined)
          => /\ state = "DISCONNECTING"
             /\ control_conn # 0 =>
                    threads[control_conn].control.state = "DISCONNECTED"
             /\ video_conn # 0 =>
                    threads[video_conn].video.state = "DISCONNECTED"]_vars


C33_NoLockHeldInJoin == caller.pc = "join" => lock # "caller"


\* Reader threads inside the loop body that entered it during the run the
\* latest start() began.
ReadersOfThisRun ==
    {r \in DOMAIN vstream.readers :
        /\ vstream.readers[r].pc = "body"
        /\ vstream.readers[r].run = vstream.starts}

\* C34: at most one reader thread executes the loop of a VideoStream: no two
\* threads are inside the loop body having both passed the loop test since
\* the latest start().
C34_OneReaderPerStream ==
    vstream.pc = "ready" => Cardinality(ReadersOfThisRun) <= 1


\* A step in which the reader's header receive returns while the loop holds
\* a header of fewer than 4 bytes from its previous receive.
HeaderReadContinues ==
    /\ stream.pc = "header"
    /\ StreamReadHeader
    /\ Len(stream.header) \in 1..(HeaderSize - 1)

\* C35: the header is accumulated over short reads.  A header receive that
\* follows one which returned fewer than 4 bytes extends those bytes by
\* the ones it read, so the header the loop then holds is made of every
\* byte taken from the connection since the frame boundary.
C35_HeaderAccumulates ==
    [][HeaderReadContinues =>
          stream'.header =
              stream.header \o
                  SubSeq(stream.wire, 1, Len(stream.wire) - Len(stream'.wire))]_vars


\* The bytes w still to be read begin at a frame boundary: they are whole
\* frames, each a header followed by its payload.
AtFrameBoundary(w) ==
    \E x \in UNION {WiresOf(n) : n \in 0..MaxFrames} : x.bytes = w

\* C40: the reader keeps frame sync.  When a receive times out in the
\* middle of a payload, the reader either stays in that payload or is at
\* a frame boundary, so that the next 4 bytes it decodes as a length are
\* a header.
C40_TimeoutKeepsFrameSync ==
    [][(stream.pc = "payload" /\ StreamReceiveTimeout)
          => (stream'.pc = "header" => AtFrameBoundary(stream'.wire))]_vars


\* C36: disconnect() is final.  From the return of a disconnect() until the
\* next call, the state is DISCONNECTED and the manager holds no
\* connection, no command channel and no video stream.
C36_DisconnectIsFinal ==
    (caller.op = "disconnect" /\ caller.pc = "idle")
        => /\ state = "DISCONNECTED"
           /\ control_conn = 0
           /\ video_conn = 0
           /\ command_processor = 0
           /\ video_stream = 0


\* C37: CONNECTING is transient.  With every thread scheduled and every
\* Connection.connect returning, a state of CONNECTING is followed by
\* CONNECTED, DISCONNECTED or ERROR.
C37_ConnectingIsTransient ==
    (state = "CONNECTING") ~> (state \in {"CONNECTED", "DISCONNECTED", "ERROR"})


\* C37 happens: a connect() set CONNECTING, its thread used up its attempts
\* and the state has become DISCONNECTED.
C37_Witness ==
    /\ caller.op = "connect"
    /\ caller.pc = "idle"
    /\ state = "DISCONNECTED"
    /\ notified = [old |-> "CONNECTING", new |-> "DISCONNECTED"]
    /\ \E t \in DOMAIN threads :
          /\ threads[t].pc = "done"
          /\ threads[t].attempt = ReconnectAttempts


\* C38: close() releases the socket.  Whatever state a SocketConnection is
\* in, when close() has returned the connection holds no socket any more.
C38_CloseReleasesSocket ==
    [][(link.pc = "ready" /\ link.kind = "socket" /\ LinkClose)
          => link'.sock = "none"]_vars


\* The new values of the notifications delivered, in order of delivery.
NotifiedValues ==
    [k \in DOMAIN notifier.delivered |-> notifier.delivered[k].new]

\* C39: the state-change notifications form a consistent chain.  In every
\* pair (old, new) delivered, old differs from new and is the value the
\* state held just before new was stored; and once no thread is inside
\* _set_state, the new values notified are the values the state took, in
\* the same order.
C39_NotificationsFormChain ==
    notifier.pc = "ready" =>
        /\ \A k \in DOMAIN notifier.delivered :
              /\ notifier.delivered[k].old # notifier.delivered[k].new
              /\ notifier.delivered[k].old = notifier.delivered[k].before
        /\ (\A i \in SetterIds : notifier.setters[i].pc = "idle")
              => NotifiedValues = notifier.took

====
